---- MODULE Spec2Model ----
(***************************************************************************)
(* A model of the "Markdown File Combiner" (repomap): FileHandler           *)
(* (src/file_handler.py), TokenCounter (src/token_counter.py),              *)
(* MarkdownGenerator (src/markdown_generator.py) and the tree / selection / *)
(* token-aggregation logic of MainApplication (src/main.py).                *)
(*                                                                          *)
(* Strings of the program are sequences of one-character strings, so that   *)
(* splitting, joining and suffix tests are computed and not assumed.        *)
(* A path is a sequence of names; PathStr renders it with os.sep.           *)
(***************************************************************************)
EXTENDS Integers, Sequences, FiniteSets, TLC

VARIABLES
    \* ---- the file system the program runs on (an index into FileSystems)
    fs,
    \* ---- FileHandler.should_exclude, and the pruning test of the digest's
    \* ---- directory tree, applied to drawn inputs
    ex_path, ex_patterns, ex_result,
    \* ---- FileHandler.is_safe_path / clear_visited_paths call sequences
    sp_visited, sp_passed, sp_last,
    sp_files,               \* what the last FileHandler.get_files returned
    \* ---- MarkdownGenerator: the composition of a digest
    md_disk,                \* the bytes of the files the generator opens
    md_selected,            \* selected_files, as collected from checked_items
    md_patterns,            \* markdown_generator.exclude_patterns
    md_result,              \* what generate_markdown_to_string returned
    \* ---- MainApplication: the widgets the handlers read
    dir_entry,              \* the directory entry: a path, <<>> when empty
    filter_enabled,         \* the "Enable Filtering" checkbox
    filter_entry,           \* the text of the extensions entry
    filter_button,          \* state of the "Apply Filter" button
    exclude_enabled,        \* the "Enable Exclusions" checkbox
    exclude_entry,          \* the text of the excluded-patterns entry
    cancel_button,          \* state of the "Cancel" button
    total_tokens_label,     \* the number shown after "Total Tokens:"
    tree,                   \* the Treeview
    clipboard,              \* what copy_markdown_to_clipboard left
    \* ---- MainApplication and FileHandler: attributes
    exclude_patterns,       \* file_handler.exclude_patterns
    visited_paths,          \* file_handler.visited_paths
    checked_items,
    calculated_directories,
    cancel_operation,
    active_threads,
    token_queue,
    pending_calculations,   \* [has, n]: has = FALSE until expand-all sets it
    calculation_results,
    \* ---- the threads and the Tk event loop
    threads,                \* thread id -> the worker's position
    timers,                 \* pending root.after(100, check_token_queue) calls
    ui_pc,                  \* where the interactive thread is
    \* ---- history, for the properties
    overflow,               \* a tree walk went deeper than MaxDepth
    completed_walks         \* the walks some worker took to the end: [dir, req]

exVars == <<ex_path, ex_patterns, ex_result>>
spVars == <<sp_visited, sp_passed, sp_last, sp_files>>
mdVars == <<md_disk, md_selected, md_patterns, md_result>>
widgetVars == <<dir_entry, filter_enabled, filter_entry, filter_button, exclude_enabled,
                exclude_entry, cancel_button, total_tokens_label, tree, clipboard>>
attrVars == <<exclude_patterns, visited_paths, checked_items, calculated_directories,
              cancel_operation, active_threads, token_queue, pending_calculations,
              calculation_results>>
loopVars == <<threads, timers, ui_pc>>
histVars == <<overflow, completed_walks>>
appVars == <<widgetVars, attrVars, loopVars, histVars>>
vars == <<fs, exVars, spVars, mdVars, appVars>>

\* a step of the application: the file system stays, and so does what the
\* specifications of FileHandler and MarkdownGenerator alone use
OnlyApp == UNCHANGED <<fs, exVars, spVars, mdVars>>

-----------------------------------------------------------------------------
(* Bounds of the model                                                      *)

\* the longest path given to should_exclude, in characters
MaxPathLen == 4
\* the deepest recursion of a tree walk the model follows
MaxDepth == 5
\* the worker threads a session creates
MaxThreads == 2
\* pending root.after callbacks at the same time
MaxTimers == 2
\* the longest selection handed to the composition of a digest
MaxSelected == 3
\* the longest content of the file whose content is drawn, in characters
MaxContent == 2

-----------------------------------------------------------------------------
(* Strings                                                                  *)

Sep == "/"
AltSep == "\\"

\* str.replace(old, new) for one-character old and new
StrReplace(s, old, new) == [i \in 1..Len(s) |-> IF s[i] = old THEN new ELSE s[i]]

RECURSIVE StrSplit(_, _)
\* str.split(sep) for a one-character separator: the pieces between the
\* separators, empty pieces included
StrSplit(s, sep) ==
    IF \E i \in 1..Len(s) : s[i] = sep
    THEN LET i == CHOOSE k \in 1..Len(s) :
                      s[k] = sep /\ \A j \in 1..(k-1) : s[j] # sep
         IN  <<SubSeq(s, 1, i-1)>> \o StrSplit(SubSeq(s, i+1, Len(s)), sep)
    ELSE <<s>>

\* str.endswith(suffix)
EndsWith(s, suffix) ==
    /\ Len(suffix) <= Len(s)
    /\ SubSeq(s, Len(s) - Len(suffix) + 1, Len(s)) = suffix

-----------------------------------------------------------------------------
(* The file system: what os.listdir, os.path.islink/isdir/isfile,           *)
(* os.path.realpath and open() answer.  Names are strings of characters.    *)

nR == <<"r">>
nA == <<"A">>
nEnv == <<"e", "n", "v">>
nL == <<"l">>
nK == <<"k">>
nApy == <<"a", ".", "p", "y">>
nSpy == <<"s", ".", "p", "y">>
\* a name holding an embedded null byte: os.path.realpath raises on it
nNul == <<"NUL">>

pR == <<nR>>
pA == <<nR, nA>>
pL == <<nR, nA, nL>>
pApy == <<nR, nA, nApy>>
pEnv == <<nR, nA, nEnv>>
pK == <<nR, nA, nEnv, nK>>
pSpy == <<nR, nA, nEnv, nSpy>>

TextFile(n) == [tokens |-> n, binary |-> FALSE, readable |-> TRUE, utf8 |-> TRUE]

\* r/A holds a symlink l -> r/A (a cycle) and a text file
FsCycle ==
    [ dirs  |-> {pR, pA},
      links |-> (pL :> pA),
      files |-> (pApy :> TextFile(2)) ]

\* r/A holds a text file and a folder named by a default exclude pattern,
\* which holds a text file and a symlink k to itself
FsExcluded ==
    [ dirs  |-> {pR, pA, pEnv},
      links |-> (pK :> pEnv),
      files |-> (pApy :> TextFile(2) @@ pSpy :> TextFile(1)) ]

nD == <<"D">>
nLow == <<"a">>
nUpy == <<"A", ".", "p", "y">>
nBpy == <<"b", ".", "p", "y">>
nTpy == <<"t", ".", "p", "y">>

pD == <<nR, nD>>
pLow == <<nR, nLow>>
pUpy == <<nR, nUpy>>
pBpy == <<nR, nD, nBpy>>
pTpy == <<nR, nD, nTpy>>

\* a file with non-text bytes (a null byte, say) that still decodes as UTF-8
BinaryFile == [tokens |-> 3, binary |-> TRUE, readable |-> TRUE, utf8 |-> TRUE]
\* a text file that is not valid UTF-8
BrokenFile == [tokens |-> 0, binary |-> FALSE, readable |-> TRUE, utf8 |-> FALSE]

\* no symlinks: r holds the folder D with a binary and a text file, the
\* empty folder a, and a file that does not decode
FsPlain ==
    [ dirs  |-> {pR, pD, pLow},
      links |-> <<>>,
      files |-> (pUpy :> BrokenFile @@ pBpy :> BinaryFile @@ pTpy :> TextFile(1)) ]

pDk == <<nR, nD, nK>>

\* no symlinks: r holds the folder D with the text files t.py and k and
\* with b.py, which does not decode
FsMixed ==
    [ dirs  |-> {pR, pD},
      links |-> <<>>,
      files |-> (pBpy :> BrokenFile @@ pTpy :> TextFile(1) @@ pDk :> TextFile(2)) ]

pGit == <<nR, <<".", "g", "i", "t">>>>
pDGit == <<nR, nD, <<".", "g", "i", "t">>>>

\* the directory of FsPlain as a repository: r holds a .git folder
FsRepo ==
    [ dirs  |-> {pR, pD, pLow, pGit},
      links |-> <<>>,
      files |-> (pUpy :> BrokenFile @@ pBpy :> BinaryFile @@ pTpy :> TextFile(1)) ]

\* a repository inside a repository: r and r/D both hold a .git folder
FsNested ==
    [ dirs  |-> {pR, pD, pLow, pGit, pDGit},
      links |-> <<>>,
      files |-> (pUpy :> BrokenFile @@ pBpy :> BinaryFile @@ pTpy :> TextFile(1)) ]

\* a regular file that cannot be opened (permission denied)
LockedFile == [tokens |-> 2, binary |-> FALSE, readable |-> FALSE, utf8 |-> TRUE]

pDa == <<nR, nD, nLow>>
pDaTpy == <<nR, nD, nLow, nTpy>>

\* r holds the folder D with b.py, which cannot be opened, k, which does
\* not decode, the text file t.py and the folder a with a text file t.py
FsLocked ==
    [ dirs  |-> {pR, pD, pDa},
      links |-> <<>>,
      files |-> (pBpy :> LockedFile @@ pDk :> BrokenFile @@ pTpy :> TextFile(1)
                 @@ pDaTpy :> TextFile(1)) ]

FileSystems == <<FsCycle, FsExcluded, FsPlain, FsMixed, FsRepo, FsNested, FsLocked>>

\* the file systems the application and the FileHandler are run over; the
\* repositories serve the search of the repository root
Workspaces == {1, 2, 3, 4}

FS == FileSystems[fs]

Front(s) == SubSeq(s, 1, Len(s) - 1)
Last(s) == s[Len(s)]

Resolvable(path) == \A i \in 1..Len(path) : path[i] # nNul

RECURSIVE RealPath(_, _)
\* os.path.realpath over the file system f: every symlink on the way is
\* replaced by its target
RealPath(f, path) ==
    IF path = <<>> THEN <<>>
    ELSE LET q == Append(RealPath(f, Front(path)), Last(path))
         IN  IF q \in DOMAIN f.links THEN RealPath(f, f.links[q]) ELSE q

realpath(path) == RealPath(FS, path)

islink(path) ==
    /\ path # <<>>
    /\ \E f \in {FS} : Append(RealPath(f, Front(path)), Last(path)) \in DOMAIN f.links
isdir(path) == \E f \in {FS} : RealPath(f, path) \in f.dirs
isfile(path) == \E f \in {FS} : RealPath(f, path) \in DOMAIN f.files

\* the names in a directory (os.listdir gives them in no particular order)
listdir(path) ==
    UNION {{n \in {Last(q) : q \in f.dirs \cup DOMAIN f.links \cup DOMAIN f.files} :
               Append(RealPath(f, path), n) \in f.dirs \cup DOMAIN f.links \cup DOMAIN f.files} :
           f \in {FS}}

-----------------------------------------------------------------------------
(* FileHandler (src/file_handler.py)                                        *)

\* A plausible slip: the visited set is not updated
is_safe_path_no_add(path, seen) ==
    IF ~Resolvable(path) THEN [ok |-> FALSE, visited |-> seen]
    ELSE [ok |-> realpath(path) \notin seen, visited |-> seen]

\* is_safe_path: the answer and seen afterwards
is_safe_path(path, seen) ==
    IF ~Resolvable(path) THEN [ok |-> FALSE, visited |-> seen]
    ELSE LET real_path == realpath(path)
         IN  IF real_path \in seen
             THEN [ok |-> FALSE, visited |-> seen]
             ELSE [ok |-> TRUE, visited |-> seen \cup {real_path}]

clear_visited_paths(seen) == {}

\* the characters of a word written as a tuple of one-character strings
DEFAULT_EXCLUDE_PATTERNS ==
    { <<"n","o","d","e","_","m","o","d","u","l","e","s">>,
      <<"v","e","n","v">>,
      <<"m","y","e","n","v">>,
      <<".","v","e","n","v">>,
      <<"_","_","p","y","c","a","c","h","e","_","_">>,
      <<".","g","i","t">>,
      <<".","i","d","e","a">>,
      <<".","v","s">>,
      <<".","v","s","c","o","d","e">>,
      <<"d","i","s","t">>,
      <<"b","u","i","l","d">>,
      <<"t","a","r","g","e","t">>,
      <<"v","e","n","d","o","r">>,
      <<".","p","y","t","e","s","t","_","c","a","c","h","e">>,
      <<".","m","y","p","y","_","c","a","c","h","e">>,
      <<".","n","e","x","t">>,
      <<"c","o","v","e","r","a","g","e">>,
      <<"e","n","v">>,
      <<".","e","n","v">>,
      <<".","e","n","v",".","l","o","c","a","l">>,
      <<".","g","i","t","i","g","n","o","r","e">> }

\* A plausible slip: substring test instead of membership
should_exclude_substring(path, patterns) ==
    LET path_parts == StrSplit(StrReplace(path, AltSep, Sep), Sep)
    IN  \E k \in 1..Len(path_parts) : \E pat \in patterns :
            \E i \in 1..(Len(path_parts[k]) + 1) :
                \E j \in (i-1)..Len(path_parts[k]) :
                    SubSeq(path_parts[k], i, j) = pat

should_exclude(path, patterns) ==
    LET path_parts == StrSplit(StrReplace(path, AltSep, Sep), Sep)
    IN  \E k \in 1..Len(path_parts) : path_parts[k] \in patterns

-----------------------------------------------------------------------------
(* More strings: what the handlers do to the text of the entry widgets and  *)
(* to paths                                                                 *)

\* str.lower() on the characters the model uses
LowerChar(c) ==
    CASE c = "A" -> "a"
      [] c = "P" -> "p"
      [] c = "Y" -> "y"
      [] c = "M" -> "m"
      [] c = "D" -> "d"
      [] OTHER -> c

Lower(s) == [i \in 1..Len(s) |-> LowerChar(s[i])]

RECURSIVE Strip(_)
\* str.strip(): leading and trailing blanks removed
Strip(s) ==
    IF s = <<>> THEN s
    ELSE IF Head(s) = " " THEN Strip(Tail(s))
    ELSE IF Last(s) = " " THEN Strip(Front(s))
    ELSE s

RECURSIVE Join(_, _)
\* sep.join(parts)
Join(parts, sep) ==
    IF parts = <<>> THEN <<>>
    ELSE IF Len(parts) = 1 THEN parts[1]
    ELSE parts[1] \o <<sep>> \o Join(Tail(parts), sep)

\* a path as the program holds it: the names joined by os.sep
PathStr(path) == Join(path, Sep)

RECURSIVE CommonLen(_, _)
CommonLen(p, q) ==
    IF p = <<>> \/ q = <<>> \/ Head(p) # Head(q) THEN 0
    ELSE 1 + CommonLen(Tail(p), Tail(q))

\* os.path.relpath(path, start), as a sequence of names
relpath(path, start) ==
    LET c == CommonLen(path, start)
        ups == [i \in 1..(Len(start) - c) |-> <<".", ".">>]
        rest == SubSeq(path, c + 1, Len(path))
    IN  IF ups \o rest = <<>> THEN << <<".">> >> ELSE ups \o rest

\* [ext.strip() for ext in entry.get().split(",")]
ParseExtensions(text) ==
    LET parts == StrSplit(text, ",")
    IN  [i \in 1..Len(parts) |-> Strip(parts[i])]

\* {p.strip() for p in entry.get().split(',') if p.strip()}
ParsePatterns(text) ==
    LET parts == StrSplit(text, ",")
    IN  {Strip(parts[i]) : i \in {k \in 1..Len(parts) : Strip(parts[k]) # <<>>}}

\* not extensions or any(name.lower().endswith(ext.lower()) for ext in extensions)
MatchesExtensions(name, extensions) ==
    \/ extensions = <<>>
    \/ \E i \in 1..Len(extensions) : EndsWith(Lower(name), Lower(extensions[i]))

\* the characters of the model in code-point order
AsciiOrder ==
    <<" ", ",", ".", "/", "A", "D", "I", "\\", "_", "a", "b", "c", "d", "e", "g",
      "h", "i", "j", "k", "l", "m", "n", "o", "p", "r", "s", "t", "u", "v",
      "x", "y">>

CodePoint(c) == CHOOSE i \in 1..Len(AsciiOrder) : AsciiOrder[i] = c

RECURSIVE LessStrIgnoreCase(_, _)
\* A plausible slip: the names are compared with their case folded
LessStrIgnoreCase(s, t) ==
    IF t = <<>> THEN FALSE
    ELSE IF s = <<>> THEN TRUE
    ELSE IF LowerChar(Head(s)) # LowerChar(Head(t))
         THEN CodePoint(LowerChar(Head(s))) < CodePoint(LowerChar(Head(t)))
    ELSE LessStrIgnoreCase(Tail(s), Tail(t))

RECURSIVE LessStr(_, _)
\* s < t for Python strings
LessStr(s, t) ==
    IF t = <<>> THEN FALSE
    ELSE IF s = <<>> THEN TRUE
    ELSE IF Head(s) # Head(t) THEN CodePoint(Head(s)) < CodePoint(Head(t))
    ELSE LessStr(Tail(s), Tail(t))

RECURSIVE SortedSeq(_)
\* sorted(items)
SortedSeq(S) ==
    IF S = {} THEN <<>>
    ELSE LET m == CHOOSE x \in S : \A y \in S \ {x} : LessStr(x, y)
         IN  <<m>> \o SortedSeq(S \ {m})

-----------------------------------------------------------------------------
(* FileHandler.get_files (src/file_handler.py)                              *)

\* line 116 negated: the file name passes the extensions filter
KeepsFile(filename, extensions) ==
    ~(extensions # <<>>
        /\ ~\E i \in 1..Len(extensions) : EndsWith(filename, extensions[i]))

\* lines 104-107: the path of root relative to the search directory, '' for '.'
GetFilesRelPath(root, directory) ==
    IF relpath(root, directory) = << <<".">> >> THEN <<>> ELSE relpath(root, directory)

\* lines 109-119: the paths appended for the file names of one directory
GetFilesHere(root, directory, extensions, patterns) ==
    {PathStr(Append(GetFilesRelPath(root, directory), filename)) :
        filename \in {n \in listdir(root) :
                         /\ ~isdir(Append(root, n))
                         /\ ~should_exclude(PathStr(Append(GetFilesRelPath(root, directory), n)),
                                            patterns)
                         /\ KeepsFile(n, extensions)}}

RECURSIVE GetFilesWalk(_, _, _, _, _)
RECURSIVE GetFilesDirs(_, _, _, _, _, _)
\* the body of the loop over os.walk(directory, followlinks=False) for root
\* and, top-down, for the directories below it; acc is [files, visited]
GetFilesWalk(root, directory, extensions, patterns, acc) ==
    LET safe == is_safe_path(root, acc.visited)
        dirs == {n \in listdir(root) : isdir(Append(root, n))}
        kept == IF safe.ok THEN {d \in dirs : d \notin patterns} ELSE dirs
        here == IF safe.ok THEN GetFilesHere(root, directory, extensions, patterns) ELSE {}
    IN  GetFilesDirs(root, SortedSeq({d \in kept : ~islink(Append(root, d))}),
                     directory, extensions, patterns,
                     [files |-> acc.files \cup here, visited |-> safe.visited])

GetFilesDirs(root, dirs, directory, extensions, patterns, acc) ==
    IF dirs = <<>> THEN acc
    ELSE GetFilesDirs(root, Tail(dirs), directory, extensions, patterns,
                      GetFilesWalk(Append(root, Head(dirs)), directory, extensions, patterns, acc))

\* visited_paths cleared before the test of the directory
get_files_clearing(directory, extensions, patterns, seen) ==
    IF ~(isdir(directory) \/ isfile(directory))
    THEN [ok |-> FALSE, files |-> <<>>, visited |-> clear_visited_paths(seen)]
    ELSE LET acc == IF isdir(directory)
                    THEN GetFilesWalk(directory, directory, extensions, patterns,
                                      [files |-> {}, visited |-> clear_visited_paths(seen)])
                    ELSE [files |-> {}, visited |-> clear_visited_paths(seen)]
         IN  [ok |-> TRUE, files |-> SortedSeq(acc.files), visited |-> acc.visited]

\* get_files(directory, extensions) of a handler with exclude_patterns and
\* visited_paths = seen: [ok, files, visited]; ok is FALSE for the ValueError
get_files(directory, extensions, patterns, seen) ==
    IF ~(isdir(directory) \/ isfile(directory))
    THEN [ok |-> FALSE, files |-> <<>>, visited |-> seen]
    ELSE LET acc == IF isdir(directory)
                    THEN GetFilesWalk(directory, directory, extensions, patterns,
                                      [files |-> {}, visited |-> clear_visited_paths(seen)])
                    ELSE [files |-> {}, visited |-> clear_visited_paths(seen)]
         IN  [ok |-> TRUE, files |-> SortedSeq(acc.files), visited |-> acc.visited]

-----------------------------------------------------------------------------
(* TokenCounter (src/token_counter.py)                                      *)

\* A plausible slip: the content of the file is not looked at
is_binary_file_unread(path) ==
    IF ~isfile(path) THEN TRUE
    ELSE ~FS.files[realpath(path)].readable

\* is_binary_file: by extension or content; a file that cannot be opened
\* counts as binary
is_binary_file(path) ==
    IF ~isfile(path) THEN TRUE
    ELSE LET f == FS.files[realpath(path)]
         IN  f.binary \/ ~f.readable

\* count_tokens_in_file: [ok, n]; ok = FALSE stands for the IOError raised
count_tokens_in_file(path) ==
    IF is_binary_file(path) THEN [ok |-> TRUE, n |-> 0]
    ELSE IF ~FS.files[realpath(path)].utf8 THEN [ok |-> FALSE, n |-> 0]
    ELSE [ok |-> TRUE, n |-> FS.files[realpath(path)].tokens]

-----------------------------------------------------------------------------
(* MarkdownGenerator (src/markdown_generator.py)                            *)

\* p in s, for strings
Contains(s, p) ==
    \E i \in 0..(Len(s) - Len(p)) : SubSeq(s, i + 1, i + Len(p)) = p

\* add_directory_to_tree, "Skip excluded items": the test made on the path
\* of an entry relative to the root of the tree
SkipExcluded(rel_path, patterns) ==
    /\ patterns # {}
    /\ \E p \in patterns : Contains(rel_path, p)

\* characters named by their code points
Backtick == "U+0060"
Package == "U+1F4E6"
OpenFolder == "U+1F4C2"
Warning == "U+26A0"
Emoji == "U+FE0F"
Tee == "U+251C"
Elbow == "U+2514"
Dash == "U+2500"
Bar == "U+2502"
LF == "\n"
CR == "\r"
\* str(e) of a caught exception, as one character
ErrorText == "str(e)"

StructureHeading ==
    <<"#", " ", "R", "e", "p", "o", "s", "i", "t", "o", "r", "y", " ", "S",
      "t", "r", "u", "c", "t", "u", "r", "e">>
SelectedHeading ==
    <<"#", " ", "S", "e", "l", "e", "c", "t", "e", "d", " ", "F", "i", "l",
      "e", "s">>
Fence == <<Backtick, Backtick, Backtick>>
ErrorPrefix == <<"E", "r", "r", "o", "r", ":", " ">>
TreeErrorPrefix ==
    <<"E", "r", "r", "o", "r", " ", "g", "e", "n", "e", "r", "a", "t", "i",
      "n", "g", " ", "c", "o", "m", "p", "l", "e", "t", "e", " ", "t", "r",
      "e", "e", ":", " ">>
ReadErrorPrefix ==
    <<"E", "r", "r", "o", "r", " ", "r", "e", "a", "d", "i", "n", "g", " ",
      "f", "i", "l", "e", " ", "-", " ">>

\* the key of sorted(os.scandir(dir_path), ...): (not e.is_dir(), e.name.lower());
\* entries with equal keys (names that differ in case only) keep the order
\* of os.scandir, taken here to be the order of the names
EntryLess(dir_path, m, n) ==
    IF isdir(Append(dir_path, m)) # isdir(Append(dir_path, n))
    THEN isdir(Append(dir_path, m))
    ELSE IF Lower(m) # Lower(n) THEN LessStr(Lower(m), Lower(n))
    ELSE LessStr(m, n)

RECURSIVE SortedEntries(_, _)
SortedEntries(dir_path, S) ==
    IF S = {} THEN <<>>
    ELSE LET m == CHOOSE x \in S : \A y \in S \ {x} : EntryLess(dir_path, x, y)
         IN  <<m>> \o SortedEntries(dir_path, S \ {m})

Connector(is_last) ==
    IF is_last THEN <<Elbow, Dash, Dash, " ">> ELSE <<Tee, Dash, Dash, " ">>

ChildPrefix(prefix, is_last) ==
    prefix \o (IF is_last THEN <<" ", " ", " ", " ">> ELSE <<Bar, " ", " ", " ">>)

\* the lines of a directory's contents, and the line appended when listing
\* it raised (lines 179-184)
WithErrorLine(sub, new_prefix) ==
    IF sub.ok THEN sub.lines
    ELSE Append(sub.lines,
                new_prefix \o Connector(FALSE) \o <<Warning, Emoji, " ">>
                    \o ErrorPrefix \o <<ErrorText>>)

RECURSIVE add_directory_to_tree(_, _, _, _)
RECURSIVE EntryLines(_, _, _, _, _, _)

\* the lines one entry adds: none when it is skipped; a directory is
\* followed by its contents, drawn with the prefix of its children
OneEntry(g, dir_path, prefix, name, is_last, depth) ==
    IF SkipExcluded(PathStr(relpath(Append(dir_path, name), g.root_dir)), g.patterns)
    THEN <<>>
    ELSE IF isdir(Append(dir_path, name))
    THEN <<prefix \o Connector(is_last) \o <<OpenFolder, " ">> \o name>>
         \o WithErrorLine(add_directory_to_tree(g, Append(dir_path, name),
                                                ChildPrefix(prefix, is_last), depth + 1),
                          ChildPrefix(prefix, is_last))
    ELSE <<prefix \o Connector(is_last) \o name>>

\* the loop over the entries, from the i-th on
EntryLines(g, dir_path, prefix, entries, i, depth) ==
    IF i > Len(entries) THEN <<>>
    ELSE OneEntry(g, dir_path, prefix, entries[i], i = Len(entries), depth)
         \o EntryLines(g, dir_path, prefix, entries, i + 1, depth)

\* add_directory_to_tree(dir_path, prefix) with g = [root_dir, patterns]:
\* [lines, ok]; ok = FALSE when os.scandir raises or the recursion is
\* deeper than the interpreter allows (here MaxDepth)
add_directory_to_tree(g, dir_path, prefix, depth) ==
    IF depth > MaxDepth \/ ~isdir(dir_path)
    THEN [lines |-> <<>>, ok |-> FALSE]
    ELSE [lines |-> EntryLines(g, dir_path, prefix,
                               SortedEntries(dir_path, listdir(dir_path)), 1, depth),
          ok |-> TRUE]

\* the line appended when the walk of the root raised (lines 191-193)
WithTreeErrorLine(top) ==
    IF top.ok THEN top.lines
    ELSE Append(top.lines, <<Warning, Emoji, " ">> \o TreeErrorPrefix \o <<ErrorText>>)

\* generate_directory_tree(root_dir, exclude_patterns): '\n'.join(tree_lines)
generate_directory_tree(root_dir, patterns) ==
    Join(<<StructureHeading \o <<LF>>, Fence, <<Package, " ">> \o Last(root_dir)>>
         \o WithTreeErrorLine(add_directory_to_tree(
                [root_dir |-> root_dir, patterns |-> patterns], root_dir, <<>>, 0))
         \o <<Fence \o <<LF>>>>,
         LF)

\* os.path.splitext(filename)[1]: from the last dot of the name on, unless
\* only dots come before it
splitext_ext(name) ==
    LET dots == {k \in 1..Len(name) : name[k] = "."}
    IN  IF dots = {} THEN <<>>
        ELSE LET k == CHOOSE d \in dots : \A e \in dots : e <= d
             IN  IF \A j \in 1..(k - 1) : name[j] = "." THEN <<>>
                 ELSE SubSeq(name, k, Len(name))

\* get_language_identifier, for the extensions of the default filter
get_language_identifier(filename) ==
    LET ext == Lower(splitext_ext(Last(filename)))
    IN  CASE ext = <<".", "p", "y">> -> <<"p", "y", "t", "h", "o", "n">>
          [] ext = <<".", "j", "s">> ->
                 <<"j", "a", "v", "a", "s", "c", "r", "i", "p", "t">>
          [] ext = <<".", "m", "d">> -> <<"m", "a", "r", "k", "d", "o", "w", "n">>
          [] OTHER -> <<>>

RECURSIVE UniversalNewlines(_)
\* what read() of a file opened in text mode does to the line ends:
\* "\r\n" and "\r" become "\n"
UniversalNewlines(b) ==
    IF b = <<>> THEN <<>>
    ELSE IF Head(b) = CR
         THEN IF Len(b) > 1 /\ b[2] = LF
              THEN <<LF>> \o UniversalNewlines(Tail(Tail(b)))
              ELSE <<LF>> \o UniversalNewlines(Tail(b))
    ELSE <<Head(b)>> \o UniversalNewlines(Tail(b))

\* whether the bytes are UTF-8: the byte E9 alone starts a sequence it does
\* not finish
Decodes(b) == \A i \in 1..Len(b) : b[i] # "0xE9"

\* open(file_path, 'r', encoding='utf-8').read() of the bytes the disk holds
\* when the digest is composed: [ok, text]
ReadFile(file_path, disk) ==
    IF ~isfile(file_path) THEN [ok |-> FALSE, text |-> <<>>]
    ELSE IF ~FS.files[realpath(file_path)].readable \/ ~Decodes(disk[realpath(file_path)])
    THEN [ok |-> FALSE, text |-> <<>>]
    ELSE [ok |-> TRUE, text |-> UniversalNewlines(disk[realpath(file_path)])]

RECURSIVE CommonPath(_)
\* os.path.commonpath of a non-empty sequence of paths
CommonPath(paths) ==
    IF Len(paths) = 1 THEN paths[1]
    ELSE LET c == CommonPath(Tail(paths))
         IN  SubSeq(c, 1, CommonLen(paths[1], c))

exists(path) == path \in FS.dirs \cup DOMAIN FS.files \cup DOMAIN FS.links

nGit == <<".", "g", "i", "t">>

RECURSIVE GitRoot(_)
\* the loop of lines 218-223: up from the common directory until a .git
\* entry is found or nothing is left
GitRoot(d) ==
    IF d = <<>> \/ exists(Append(d, nGit)) THEN d ELSE GitRoot(Front(d))

\* the outermost directory with a .git entry instead of the nearest
RepoRoot_outermost(common_prefix) ==
    LET g == {n \in 0..Len(common_prefix) : exists(Append(SubSeq(common_prefix, 1, n), nGit))}
    IN  IF g = {} THEN common_prefix
        ELSE SubSeq(common_prefix, 1, CHOOSE n \in g : \A m \in g : n <= m)

\* lines 218-226
RepoRoot(common_prefix) ==
    IF exists(Append(GitRoot(common_prefix), nGit))
    THEN GitRoot(common_prefix)
    ELSE common_prefix

\* a failed read leaves no line
FileBody_silent(rel_path, language, read) ==
    IF read.ok
    THEN Fence \o language \o <<LF>> \o read.text \o <<LF>> \o Fence \o <<LF, LF>>
    ELSE <<>>

\* lines 254-263 for one file: its header, then its fenced content or the
\* line that says why it could not be read
FileBody(rel_path, language, read) ==
    IF read.ok
    THEN Fence \o language \o <<LF>> \o read.text \o <<LF>> \o Fence \o <<LF, LF>>
    ELSE ReadErrorPrefix \o rel_path \o <<":", " ", ErrorText, LF, LF>>

Section(file_path, common_prefix, disk) ==
    IF isdir(file_path) THEN <<>>
    ELSE <<"#", " ">> \o PathStr(relpath(file_path, common_prefix)) \o <<LF, LF>>
         \o FileBody(PathStr(relpath(file_path, common_prefix)),
                     get_language_identifier(file_path), ReadFile(file_path, disk))

RECURSIVE Sections(_, _, _)
Sections(file_paths, common_prefix, disk) ==
    IF file_paths = <<>> THEN <<>>
    ELSE Section(Head(file_paths), common_prefix, disk)
         \o Sections(Tail(file_paths), common_prefix, disk)

\* the tree and the heading of the sections with one line end less between
TreePart_tight(repo_root, patterns) ==
    IF repo_root = <<>> THEN <<>>
    ELSE generate_directory_tree(repo_root, patterns)
         \o <<LF>> \o SelectedHeading \o <<LF, LF>>

\* lines 239-243
TreePart(repo_root, patterns) ==
    IF repo_root = <<>> THEN <<>>
    ELSE generate_directory_tree(repo_root, patterns)
         \o <<LF, LF>> \o SelectedHeading \o <<LF, LF>>

Compose(file_paths, common_prefix, patterns, disk) ==
    TreePart(RepoRoot(common_prefix), patterns) \o Sections(file_paths, common_prefix, disk)

\* generate_markdown_to_string(file_paths): [ok, content]; the paths are
\* all of one kind (absolute), so os.path.commonpath does not raise
generate_markdown_to_string(file_paths, patterns, disk) ==
    IF file_paths = <<>> THEN [ok |-> TRUE, content |-> <<>>]
    ELSE [ok |-> TRUE,
          content |-> Compose(file_paths,
                              CommonPath([i \in 1..Len(file_paths) |-> Front(file_paths[i])]),
                              patterns, disk)]

\* the selection passed on as collected
selected_files_kept(seen, selected_files) == selected_files

RECURSIVE Dedup(_, _)
\* list(dict.fromkeys(selected_files)): the first occurrences, in order
Dedup(seen, selected_files) ==
    IF selected_files = <<>> THEN <<>>
    ELSE IF Head(selected_files) \in seen THEN Dedup(seen, Tail(selected_files))
    ELSE <<Head(selected_files)>>
         \o Dedup(seen \cup {Head(selected_files)}, Tail(selected_files))

-----------------------------------------------------------------------------
(* The ttk.Treeview: kids[p] is the ordered children of p (<<>> is the      *)
(* root ""), it[i] the options of item i.  An item's iid is its path; an    *)
(* item inserted without iid gets an identifier of the widget's own.        *)
(* The text of an item is [mark, rest]: text[0] and text[2:].               *)

nSkipped == <<"I", "s">>
nDummy == <<"I", "d">>

EmptyTree == [kids |-> (<<>> :> <<>>), it |-> <<>>]

Item(mark, rest, vs, vn, tags) ==
    [text |-> [mark |-> mark, rest |-> rest], values |-> [s |-> vs, n |-> vn],
     tags |-> tags, open |-> FALSE]

\* tree.insert(parent, tk.END, iid=iid, ...)
TreeInsert(t, parent, iid, item) ==
    [kids |-> [t.kids EXCEPT ![parent] = Append(@, iid)] @@ (iid :> <<>>),
     it   |-> t.it @@ (iid :> item)]

\* tree.delete(iid) of an item without children
TreeDelete(t, iid) ==
    [kids |-> [p \in DOMAIN t.kids \ {iid} |->
                  SelectSeq(t.kids[p], LAMBDA c : c # iid)],
     it   |-> [i \in DOMAIN t.it \ {iid} |-> t.it[i]]]

get_children(t, item) == t.kids[item]

Tags(t, item) == t.it[item].tags

SkippedItem == Item("warn", "Skipped: Potential circular reference", "(skipped)", 0, {"error"})
DummyItem == Item("", "", "", 0, {"dummy"})

\* the folder shows only its placeholder, or nothing
NeedsPopulate(t, item) ==
    LET children == get_children(t, item)
    IN  \/ children = <<>>
        \/ (Len(children) = 1 /\ "dummy" \in Tags(t, children[1]))

RECURSIVE DeleteDummies(_, _)
DeleteDummies(t, children) ==
    IF children = <<>> THEN t
    ELSE IF "dummy" \in Tags(t, Head(children))
         THEN DeleteDummies(TreeDelete(t, Head(children)), Tail(children))
         ELSE DeleteDummies(t, Tail(children))

-----------------------------------------------------------------------------
(* MainApplication.populate_tree (src/main.py).  cfg is what the handler    *)
(* reads from the widgets and the file handler: [root, excl_on, patterns]. *)

Excluded(item_path, cfg) ==
    /\ cfg.excl_on
    /\ should_exclude(PathStr(relpath(item_path, cfg.root)), cfg.patterns)

RECURSIVE AddFolders(_, _, _, _, _)
\* the first loop: symlinks to directories, then folders with a placeholder
AddFolders(t, parent, path, items, cfg) ==
    IF items = <<>> THEN t
    ELSE LET item == Head(items)
             item_path == Append(path, item)
             t1 == IF islink(item_path)
                   THEN IF isdir(item_path)
                        THEN TreeInsert(t, parent, item_path,
                                 Item("symlink", "link", "(symlink)", 0, {"folder", "symlink"}))
                        ELSE t
                   ELSE IF isdir(item_path)
                   THEN LET f == IF Excluded(item_path, cfg)
                                 THEN Item("excluded", "name", "(excluded)", 0, {"folder", "excluded"})
                                 ELSE Item("unchecked", "name", "", 0, {"folder"})
                        IN  TreeInsert(TreeInsert(t, parent, item_path, f),
                                       item_path, Append(item_path, nDummy), DummyItem)
                   ELSE t
         IN  AddFolders(t1, parent, path, Tail(items), cfg)

RECURSIVE AddFiles(_, _, _, _, _, _)
\* the second loop: the regular files
AddFiles(t, parent, path, items, extensions, cfg) ==
    IF items = <<>> THEN t
    ELSE LET item == Head(items)
             item_path == Append(path, item)
             t1 == IF ~isfile(item_path) THEN t
                   ELSE IF Excluded(item_path, cfg)
                   THEN TreeInsert(t, parent, item_path,
                            Item("excluded", "name", "(excluded)", 0, {"file", "excluded"}))
                   ELSE IF MatchesExtensions(item, extensions)
                   THEN LET c == count_tokens_in_file(item_path)
                        IN  IF ~c.ok
                            THEN TreeInsert(t, parent, item_path,
                                     Item("unchecked", "name", "(error)", 0, {"file", "error"}))
                            ELSE IF c.n = 0 /\ is_binary_file(item_path)
                            THEN TreeInsert(t, parent, item_path,
                                     Item("unchecked", "name", "(binary)", 0, {"file", "binary"}))
                            ELSE TreeInsert(t, parent, item_path,
                                     Item("unchecked", "name", "int", c.n, {"file"}))
                   ELSE t
         IN  AddFiles(t1, parent, path, Tail(items), extensions, cfg)

\* A plausible slip: the cycle guard is not consulted
populate_tree_unguarded(st, parent, path, extensions, cfg) ==
    IF ~isdir(path) THEN st
    ELSE LET items == SortedSeq(listdir(path))
         IN  [st EXCEPT !.tree = AddFiles(AddFolders(st.tree, parent, path, items, cfg),
                                          parent, path, items, extensions, cfg)]

\* populate_tree on st = [tree, visited, ...]: the marker when the path is
\* not safe; nothing when os.listdir raises; else folders, then files
populate_tree(st, parent, path, extensions, cfg) ==
    LET safe == is_safe_path(path, st.visited)
    IN  IF ~safe.ok
        THEN [st EXCEPT !.tree = TreeInsert(st.tree, parent, Append(parent, nSkipped), SkippedItem),
                        !.visited = safe.visited]
        ELSE IF ~isdir(path)
        THEN [st EXCEPT !.visited = safe.visited]
        ELSE LET items == SortedSeq(listdir(path))
             IN  [st EXCEPT !.tree = AddFiles(AddFolders(st.tree, parent, path, items, cfg),
                                              parent, path, items, extensions, cfg),
                            !.visited = safe.visited]

-----------------------------------------------------------------------------
(* Selection: check_item_and_children, uncheck_item_and_children and        *)
(* update_total_tokens (src/main.py).  They work on                         *)
(*   st = [tree, visited, checked, starts, overflow]                        *)
(* where starts lists the directories calculate_tokens_for_directory is     *)
(* called for and overflow says that the recursion went deeper than         *)
(* MaxDepth.  ctx = [cfg, extensions, calculated] is what the handler reads.*)

SetMark(t, item, mark) ==
    [t EXCEPT !.it[item].text.mark = mark]

\* the folder shows only its placeholder or nothing: the placeholder is
\* deleted and the folder populated (the same lines in on_folder_open,
\* handle_click, check_item_and_children and expand_all_folders)
PopulateIfNeeded(st, item, ctx) ==
    IF NeedsPopulate(st.tree, item)
    THEN populate_tree([st EXCEPT !.tree = DeleteDummies(st.tree, get_children(st.tree, item))],
                       item, item, ctx.extensions, ctx.cfg)
    ELSE st

\* lines 958-960: the item shows the checked box and joins checked_items
CheckOne(st, item) ==
    [st EXCEPT !.tree = SetMark(st.tree, item, "checked"), !.checked = @ \cup {item}]

\* lines 980-981: calculate_tokens_for_directory unless skipped or known
RequestCalculation(st, item, skip_calculation, ctx) ==
    IF ~skip_calculation /\ item \notin ctx.calculated
    THEN [st EXCEPT !.starts = Append(@, item)]
    ELSE st

\* lines 963-981: a folder is opened, populated when needed, and calculated
CheckFolder(st, item, skip_calculation, ctx) ==
    IF "folder" \notin Tags(st.tree, item) THEN st
    ELSE RequestCalculation(
             PopulateIfNeeded([st EXCEPT !.tree.it[item].open = TRUE], item, ctx),
             item, skip_calculation, ctx)

RECURSIVE check_item_and_children(_, _, _, _, _)
RECURSIVE CheckChildren(_, _, _, _, _)

\* lines 984-985: the children the item has now
CheckChildrenOf(st, item, skip_calculation, depth, ctx) ==
    CheckChildren(st, get_children(st.tree, item), skip_calculation, depth, ctx)

\* A plausible slip: the excluded test of line 954 is missing
check_item_and_children_no_guard(st, item, skip_calculation, depth, ctx) ==
    IF depth > MaxDepth THEN [st EXCEPT !.overflow = TRUE]
    ELSE CheckChildrenOf(CheckFolder(CheckOne(st, item), item, skip_calculation, ctx),
                         item, skip_calculation, depth + 1, ctx)

\* A plausible slip: the children are not visited
check_item_and_children_flat(st, item, skip_calculation, depth, ctx) ==
    IF "excluded" \in Tags(st.tree, item) THEN st
    ELSE CheckFolder(CheckOne(st, item), item, skip_calculation, ctx)

check_item_and_children(st, item, skip_calculation, depth, ctx) ==
    IF depth > MaxDepth THEN [st EXCEPT !.overflow = TRUE]
    ELSE IF "excluded" \in Tags(st.tree, item) THEN st
    ELSE CheckChildrenOf(CheckFolder(CheckOne(st, item), item, skip_calculation, ctx),
                         item, skip_calculation, depth + 1, ctx)

CheckChildren(st, children, skip_calculation, depth, ctx) ==
    IF children = <<>> THEN st
    ELSE CheckChildren(check_item_and_children(st, Head(children), skip_calculation, depth, ctx),
                       Tail(children), skip_calculation, depth, ctx)

RECURSIVE uncheck_item_and_children(_, _)
RECURSIVE UncheckChildren(_, _)

\* lines 994-996: the item shows the empty box and leaves checked_items
UncheckOne(st, item) ==
    [st EXCEPT !.tree = SetMark(st.tree, item, "unchecked"), !.checked = @ \ {item}]

uncheck_item_and_children(st, item) ==
    IF "excluded" \in Tags(st.tree, item) THEN st
    ELSE UncheckChildren(UncheckOne(st, item), get_children(st.tree, item))

UncheckChildren(st, children) ==
    IF children = <<>> THEN st
    ELSE UncheckChildren(uncheck_item_and_children(st, Head(children)), Tail(children))

RECURSIVE SumOver(_, _)
SumOver(S, f) ==
    IF S = {} THEN 0
    ELSE LET x == CHOOSE y \in S : TRUE IN f[x] + SumOver(S \ {x}, f)

\* update_total_tokens(None): [checked, total]: items no longer in the tree
\* leave checked_items; the total runs over the checked, not excluded files
\* whose value is a number
update_total_tokens(t, checked) ==
    LET present == checked \cap DOMAIN t.it
        checked_files == {i \in present : "excluded" \notin Tags(t, i) /\ "file" \in Tags(t, i)}
        count == [i \in checked_files |->
                    IF t.it[i].values.s = "int" /\ t.it[i].values.n # 0
                    THEN t.it[i].values.n ELSE 0]
    IN  [checked |-> present, total |-> SumOver(checked_files, count)]

-----------------------------------------------------------------------------
(* Background token calculation: the walk of a worker thread                *)

RECURSIVE WalkSteps(_)
RECURSIVE WalkDirs(_, _)
\* os.walk(top), as the sequence of places where the worker looks at the
\* cancel flag: each directory yielded, then each of its file names;
\* symlinked sub-directories are not entered, errors yield nothing
WalkSteps(top) ==
    IF ~isdir(top) THEN <<>>
    ELSE LET names == SortedSeq(listdir(top))
             filenames == SelectSeq(names, LAMBDA n : ~isdir(Append(top, n)))
             dirs == SelectSeq(names, LAMBDA n : isdir(Append(top, n)) /\ ~islink(Append(top, n)))
         IN  <<[kind |-> "dir", path |-> top]>>
             \o [i \in 1..Len(filenames) |-> [kind |-> "file", path |-> Append(top, filenames[i])]]
             \o WalkDirs(top, dirs)

WalkDirs(top, dirs) ==
    IF dirs = <<>> THEN <<>>
    ELSE WalkSteps(Append(top, Head(dirs))) \o WalkDirs(top, Tail(dirs))

FreeThread == [pc |-> "free", dir |-> <<>>, pos |-> 0, total |-> 0, cancel_req |-> FALSE]

Threads == 1..MaxThreads

\* a thread identity not handed out yet: every Thread object is a new one
Available(thr, queue, t) == thr[t].pc = "free"

is_alive(thr, t) == thr[t].pc \in {"run", "finally"}

RECURSIVE StartThreads(_, _, _)
\* threading.Thread(target=token_calculation_thread).start() for each directory
StartThreads(thr, queue, dirs) ==
    IF dirs = <<>> THEN thr
    ELSE LET t == CHOOSE u \in Threads :
                      Available(thr, queue, u) /\ \A w \in Threads : Available(thr, queue, w) => u <= w
         IN  StartThreads([thr EXCEPT ![t] = [pc |-> "run", dir |-> Head(dirs), pos |-> 1,
                                              total |-> 0, cancel_req |-> FALSE]],
                          queue, Tail(dirs))

StartedIds(thr0, thr1) == {t \in Threads : thr1[t] # thr0[t]}

CanStart(n) ==
    /\ Cardinality({t \in Threads : Available(threads, token_queue, t)}) >= n
    /\ timers + n <= MaxTimers

\* calculate_tokens_for_directory for each of dirs, in order: the Cancel
\* button is enabled, a thread is started and a poll is scheduled
CalculateTokens(dirs) ==
    IF dirs = <<>>
    THEN UNCHANGED <<threads, active_threads, timers, cancel_button>>
    ELSE /\ threads' = StartThreads(threads, token_queue, dirs)
         /\ active_threads' = active_threads \cup StartedIds(threads, threads')
         /\ timers' = timers + Len(dirs)
         /\ cancel_button' = "normal"

-----------------------------------------------------------------------------
(* What the handlers read                                                   *)

Cfg == [root |-> dir_entry, excl_on |-> exclude_enabled, patterns |-> exclude_patterns]

Ctx == [cfg |-> Cfg, extensions |-> ParseExtensions(filter_entry),
        calculated |-> calculated_directories]

St0 == [tree |-> tree, visited |-> visited_paths, checked |-> checked_items,
        starts |-> <<>>, overflow |-> overflow]

DefaultFilterText == <<".", "p", "y", ",", ".", "j", "s", ",", ".", "m", "d">>

\* ttk.Entry.insert(0, chars) and delete(0, tk.END) on an entry that holds
\* text: an entry whose state is 'disabled' ignores both
EntryInsert(state, text, chars) == IF state = "disabled" THEN text ELSE chars \o text
EntryDelete(state, text) == IF state = "disabled" THEN text ELSE <<>>

\* what the user can type into the extensions entry
FilterTexts == {<<".", "p", "y">>}
DefaultExcludeText == Join(SortedSeq(DEFAULT_EXCLUDE_PATTERNS), ",")

\* the directories the user can pick in the dialog
Directories == {pR}

Items == DOMAIN tree.it
FolderItems == {i \in Items : "folder" \in Tags(tree, i)}

-----------------------------------------------------------------------------
(* The handlers of MainApplication (src/main.py), one action each.          *)
(* A handler runs on the interactive thread: only when ui_pc = "idle".      *)

\* refresh_files, given what the widgets and the file handler hold when it
\* runs (seen0: the handler's visited_paths): the tree and the selection are
\* rebuilt from the directory
RefreshFiles(dir, ftext, excl_on, patterns, seen0) ==
    IF dir = <<>>
    THEN /\ UNCHANGED <<tree, checked_items, total_tokens_label, overflow>>
         /\ visited_paths' = seen0
    ELSE LET cfg == [root |-> dir, excl_on |-> excl_on, patterns |-> patterns]
             st == populate_tree([St0 EXCEPT !.tree = EmptyTree, !.checked = {},
                                             !.visited = clear_visited_paths(seen0)],
                                 <<>>, dir, ParseExtensions(ftext), cfg)
             ut == update_total_tokens(st.tree, st.checked)
         IN  /\ tree' = st.tree
             /\ checked_items' = ut.checked
             /\ visited_paths' = st.visited
             /\ total_tokens_label' = ut.total
             /\ overflow' = st.overflow

UnchangedCalc ==
    UNCHANGED <<calculated_directories, cancel_operation, active_threads, token_queue,
                pending_calculations, calculation_results, threads, timers, ui_pc,
                cancel_button, completed_walks>>

\* browse_directory: the dialog returned a directory
browse_directory(directory) ==
    /\ ui_pc = "idle"
    /\ dir_entry' = directory
    /\ RefreshFiles(directory, filter_entry, exclude_enabled, exclude_patterns, visited_paths)
    /\ UNCHANGED <<filter_enabled, filter_entry, filter_button, exclude_enabled,
                   exclude_entry, exclude_patterns, clipboard>>
    /\ UnchangedCalc
    /\ OnlyApp

\* toggle_filter: the checkbox was clicked (its variable has flipped)
toggle_filter ==
    /\ ui_pc = "idle"
    /\ filter_enabled' = ~filter_enabled
    /\ IF filter_enabled'
       THEN /\ filter_button' = "normal"
            /\ UNCHANGED <<filter_entry, tree, checked_items, visited_paths,
                           total_tokens_label, overflow>>
       ELSE /\ filter_entry' = EntryInsert("disabled", EntryDelete("disabled", filter_entry),
                                             DefaultFilterText)
            /\ RefreshFiles(dir_entry, filter_entry', exclude_enabled, exclude_patterns, visited_paths)
            /\ UNCHANGED filter_button
    /\ UNCHANGED <<dir_entry, exclude_enabled, exclude_entry, exclude_patterns, clipboard>>
    /\ UnchangedCalc
    /\ OnlyApp

\* the user replaces the text of the extensions entry, which takes input
\* while its state is 'normal'
edit_filter(text) ==
    /\ ui_pc = "idle"
    /\ filter_enabled
    /\ filter_entry' = text
    /\ UNCHANGED <<dir_entry, filter_enabled, filter_button, exclude_enabled, exclude_entry,
                   exclude_patterns, clipboard, tree, checked_items, visited_paths,
                   total_tokens_label, overflow>>
    /\ UnchangedCalc
    /\ OnlyApp

\* the "Apply Filter" button: refresh_files
apply_filter ==
    /\ ui_pc = "idle"
    /\ filter_button = "normal"
    /\ RefreshFiles(dir_entry, filter_entry, exclude_enabled, exclude_patterns, visited_paths)
    /\ UNCHANGED <<dir_entry, filter_enabled, filter_entry, filter_button, exclude_enabled,
                   exclude_entry, exclude_patterns, clipboard>>
    /\ UnchangedCalc
    /\ OnlyApp

\* toggle_exclude: the checkbox was clicked; a new FileHandler is made
toggle_exclude ==
    /\ ui_pc = "idle"
    /\ exclude_enabled' = ~exclude_enabled
    /\ exclude_patterns' = IF exclude_enabled' THEN ParsePatterns(exclude_entry) ELSE {}
    /\ RefreshFiles(dir_entry, filter_entry, exclude_enabled', exclude_patterns', {})
    /\ UNCHANGED <<dir_entry, filter_enabled, filter_entry, filter_button, exclude_entry,
                   clipboard>>
    /\ UnchangedCalc
    /\ OnlyApp

UnchangedSettings ==
    UNCHANGED <<dir_entry, filter_enabled, filter_entry, filter_button, exclude_enabled,
                exclude_entry, exclude_patterns>>

\* on_folder_open: <<TreeviewOpen>> with the focus on a closed folder item;
\* the widget then shows the item open
on_folder_open(item) ==
    /\ ui_pc = "idle"
    /\ item \in FolderItems
    /\ ~tree.it[item].open
    /\ LET st == PopulateIfNeeded(St0, item, Ctx)
       IN  /\ tree' = [st.tree EXCEPT !.it[item].open = TRUE]
           /\ visited_paths' = st.visited
           /\ overflow' = st.overflow
    /\ UNCHANGED <<checked_items, total_tokens_label, clipboard>>
    /\ UnchangedSettings
    /\ UnchangedCalc
    /\ OnlyApp

\* on_folder_close: <<TreeviewClose>> with the focus on an open folder item
on_folder_close(item) ==
    /\ ui_pc = "idle"
    /\ item \in FolderItems
    /\ tree.it[item].open
    /\ LET st == IF tree.it[item].text.mark # "checked"
                 THEN uncheck_item_and_children(St0, item)
                 ELSE St0
           ut == update_total_tokens(st.tree, st.checked)
       IN  /\ tree' = [st.tree EXCEPT !.it[item].open = FALSE]
           /\ checked_items' = ut.checked
           /\ total_tokens_label' = ut.total
    /\ UNCHANGED <<visited_paths, overflow, clipboard>>
    /\ UnchangedSettings
    /\ UnchangedCalc
    /\ OnlyApp

\* what a click can hit: an item that is shown, or nothing (<<>>)
ClickTargets == {i \in Items : "dummy" \notin Tags(tree, i)} \cup {<<>>}

\* A plausible slip: the directory is calculated, known or not
RequestLabelCalculation_always(st, item) ==
    [st EXCEPT !.starts = Append(@, item)]

\* lines 938-939 of handle_click: the directory is calculated unless known
RequestLabelCalculation(st, item) ==
    IF item \notin calculated_directories
    THEN [st EXCEPT !.starts = Append(@, item)]
    ELSE st

\* the branches of handle_click before its update_total_tokens
ClickEffect(item) ==
    IF item = <<>> THEN St0
    ELSE IF tree.it[item].text.mark = "unchecked"
    THEN check_item_and_children(St0, item, TRUE, 0, Ctx)
    ELSE IF tree.it[item].text.mark = "checked"
    THEN uncheck_item_and_children(St0, item)
    ELSE IF "folder" \in Tags(tree, item)
    THEN RequestLabelCalculation(PopulateIfNeeded(St0, item, Ctx), item)
    ELSE St0

\* what a handler leaves behind: the threads it started, then the outcome
\* ut of its update_total_tokens
Commit(st, ut) ==
    /\ CanStart(Len(st.starts))
    /\ CalculateTokens(st.starts)
    /\ tree' = st.tree
    /\ checked_items' = ut.checked
    /\ visited_paths' = st.visited
    /\ total_tokens_label' = ut.total
    /\ overflow' = st.overflow

CommitClick(st) == Commit(st, update_total_tokens(st.tree, st.checked))

\* handle_click: <Button-1> on the tree
handle_click(item) ==
    /\ ui_pc = "idle"
    /\ item \in ClickTargets
    /\ IF item # <<>> /\ "excluded" \in Tags(tree, item)
       THEN UNCHANGED <<tree, checked_items, visited_paths, total_tokens_label, overflow,
                        threads, active_threads, timers, cancel_button>>
       ELSE CommitClick(ClickEffect(item))
    /\ UNCHANGED <<clipboard, calculated_directories, cancel_operation, token_queue,
                   pending_calculations, calculation_results, ui_pc, completed_walks>>
    /\ UnchangedSettings
    /\ OnlyApp

RECURSIVE expand_and_select_children(_, _, _, _)
RECURSIVE ExpandChildren(_, _, _, _)

\* lines 825-826: the folder joins folders_to_calculate unless known
NoteFolder(acc, item, ctx) ==
    IF item \notin ctx.calculated
    THEN [acc EXCEPT !.st.starts = Append(@, item)]
    ELSE acc

\* lines 811-822: the folder is opened, and populated when needed
ExpandFolder(st, item, ctx) ==
    PopulateIfNeeded([st EXCEPT !.tree.it[item].open = TRUE], item, ctx)

\* lines 828-830: the children the folder has now
ExpandChildrenOf(acc, item, depth, ctx) ==
    ExpandChildren(acc, get_children(acc.st.tree, item), depth, ctx)

\* lines 808-830 for an item that is not excluded: acc.st is the item
\* checked; is_folder is read from the tags taken before
ExpandChecked(acc, item, is_folder, depth, ctx) ==
    IF ~is_folder THEN acc
    ELSE ExpandChildrenOf(NoteFolder([acc EXCEPT !.st = ExpandFolder(@, item, ctx)], item, ctx),
                          item, depth + 1, ctx)

\* expand_all_folders.expand_and_select_children on acc = [st]; st.starts
\* is folders_to_calculate
expand_and_select_children(acc, item, depth, ctx) ==
    IF depth > MaxDepth THEN [acc EXCEPT !.st.overflow = TRUE]
    ELSE IF "excluded" \in Tags(acc.st.tree, item) THEN acc
    ELSE ExpandChecked([acc EXCEPT !.st = check_item_and_children(@, item, TRUE, 0, ctx)],
                       item, "folder" \in Tags(acc.st.tree, item), depth, ctx)

ExpandChildren(acc, children, depth, ctx) ==
    IF children = <<>> THEN acc
    ELSE ExpandChildren(expand_and_select_children(acc, Head(children), depth, ctx),
                        Tail(children), depth, ctx)

\* lines 837-853: with folders to calculate the threads are started and the
\* label is left alone, else update_total_tokens
CommitExpand(st) ==
    /\ pending_calculations' = [has |-> TRUE, n |-> Len(st.starts)]
    /\ IF st.starts # <<>>
       THEN Commit(st, [checked |-> st.checked, total |-> total_tokens_label])
       ELSE Commit(st, update_total_tokens(st.tree, st.checked))

\* expand_all_folders: the "Expand All" button
expand_all_folders ==
    /\ ui_pc = "idle"
    /\ dir_entry # <<>>
    /\ CommitExpand(ExpandChildren([st |-> [St0 EXCEPT !.checked = {}]],
                                   get_children(tree, <<>>), 0, Ctx).st)
    /\ calculation_results' = <<>>
    /\ cancel_operation' = FALSE
    /\ UNCHANGED <<clipboard, calculated_directories, token_queue, ui_pc, completed_walks>>
    /\ UnchangedSettings
    /\ OnlyApp

RECURSIVE collapse_and_deselect_folder_recursive(_, _)
RECURSIVE CollapseChildren(_, _)
\* collapse_all_folders.collapse_and_deselect_folder_recursive on the tree
collapse_and_deselect_folder_recursive(t, item) ==
    LET t1 == IF "excluded" \notin Tags(t, item) /\ t.it[item].text.mark = "checked"
              THEN SetMark(t, item, "unchecked") ELSE t
    IN  IF "folder" \in Tags(t1, item)
        THEN [CollapseChildren(t1, get_children(t1, item)) EXCEPT !.it[item].open = FALSE]
        ELSE t1

CollapseChildren(t, children) ==
    IF children = <<>> THEN t
    ELSE CollapseChildren(collapse_and_deselect_folder_recursive(t, Head(children)),
                          Tail(children))

\* collapse_all_folders: the "Collapse All" button
collapse_all_folders ==
    /\ ui_pc = "idle"
    /\ dir_entry # <<>>
    /\ LET t == CollapseChildren(tree, get_children(tree, <<>>))
           ut == update_total_tokens(t, {})
       IN  /\ tree' = t
           /\ checked_items' = ut.checked
           /\ total_tokens_label' = ut.total
    /\ UNCHANGED <<visited_paths, overflow, clipboard>>
    /\ UnchangedSettings
    /\ UnchangedCalc
    /\ OnlyApp

\* cancel_current_operation: the "Cancel" button, when enabled.  cancel_req
\* remembers the workers that still had a look at the flag ahead of them.
cancel_current_operation ==
    /\ ui_pc = "idle"
    /\ cancel_button = "normal"
    /\ cancel_operation' = TRUE
    /\ threads' = [t \in Threads |->
                     IF threads[t].pc = "run" /\ threads[t].pos <= Len(WalkSteps(threads[t].dir))
                     THEN [threads[t] EXCEPT !.cancel_req = TRUE]
                     ELSE threads[t]]
    /\ UNCHANGED <<tree, checked_items, visited_paths, total_tokens_label, overflow, clipboard,
                   calculated_directories, active_threads, token_queue, pending_calculations,
                   calculation_results, timers, ui_pc, cancel_button, completed_walks>>
    /\ UnchangedSettings
    /\ OnlyApp

RECURSIVE GetFiles(_, _)
\* the loop of get_files_from_folder over os.walk: files whose first
\* kilobyte reads as UTF-8; any other error ends the walk
GetFiles(steps, files) ==
    IF steps = <<>> THEN files
    ELSE IF Head(steps).kind = "dir" THEN GetFiles(Tail(steps), files)
    ELSE IF ~isfile(Head(steps).path) THEN files
    ELSE LET f == FS.files[realpath(Head(steps).path)]
         IN  IF f.readable /\ f.utf8
             THEN GetFiles(Tail(steps), Append(files, Head(steps).path))
             ELSE GetFiles(Tail(steps), files)

get_files_from_folder(folder_path) == GetFiles(WalkSteps(folder_path), <<>>)

Range(q) == {q[i] : i \in 1..Len(q)}

\* copy_markdown_to_clipboard, lines 596-620: the files handed to the
\* generator (the order of a set's iteration is not kept here)
SelectedFiles ==
    UNION { IF "folder" \in Tags(tree, item) THEN Range(get_files_from_folder(item))
            ELSE IF tree.it[item].values.s \in {"(binary)", "(error)"} THEN {}
            ELSE {item}
            : item \in checked_items \cap Items }

\* copy_markdown_to_clipboard: the "Copy to Clipboard" button
copy_markdown_to_clipboard ==
    /\ ui_pc = "idle"
    /\ IF checked_items = {} \/ SelectedFiles = {}
       THEN UNCHANGED clipboard
       ELSE clipboard' = [files |-> SelectedFiles]
    /\ UNCHANGED <<tree, checked_items, visited_paths, total_tokens_label, overflow>>
    /\ UnchangedSettings
    /\ UnchangedCalc
    /\ OnlyApp

-----------------------------------------------------------------------------
(* token_calculation_thread (src/main.py 377-422): one action per place     *)
(* where the worker can be overtaken by the interactive thread              *)

Msg(status, path, n) == [status |-> status, path |-> path, n |-> n]

UnchangedUi ==
    UNCHANGED <<widgetVars, exclude_patterns, visited_paths, checked_items,
                calculated_directories, cancel_operation, pending_calculations,
                calculation_results, timers, ui_pc, overflow>>

\* A plausible slip: a file that cannot be read is passed over in silence
FileOutcome_silent(item_path) ==
    IF is_binary_file(item_path) \/ ~count_tokens_in_file(item_path).ok
    THEN [status |-> "skip", n |-> 0]
    ELSE [status |-> "progress", n |-> count_tokens_in_file(item_path).n]

\* what the worker does with one file name: "skip", "progress" or "error"
FileOutcome(item_path) ==
    IF is_binary_file(item_path) THEN [status |-> "skip", n |-> 0]
    ELSE IF exclude_enabled
            /\ should_exclude(PathStr(relpath(item_path, dir_entry)), exclude_patterns)
    THEN [status |-> "skip", n |-> 0]
    ELSE LET extensions == ParseExtensions(filter_entry)
         IN  IF extensions # <<>>
                /\ ~\E i \in 1..Len(extensions) :
                       EndsWith(Lower(PathStr(item_path)), Lower(extensions[i]))
             THEN [status |-> "skip", n |-> 0]
             ELSE LET c == count_tokens_in_file(item_path)
                  IN  IF c.ok THEN [status |-> "progress", n |-> c.n]
                      ELSE [status |-> "error", n |-> 0]

\* the next directory or file name of os.walk, the cancel flag being clear
WorkerVisit(t) ==
    /\ threads[t].pc = "run"
    /\ threads[t].pos <= Len(WalkSteps(threads[t].dir))
    /\ ~cancel_operation
    /\ LET step == WalkSteps(threads[t].dir)[threads[t].pos]
           out == FileOutcome(step.path)
       IN  IF step.kind = "dir" \/ out.status = "skip"
           THEN /\ threads' = [threads EXCEPT ![t].pos = @ + 1]
                /\ UNCHANGED token_queue
           ELSE /\ threads' = [threads EXCEPT ![t].pos = @ + 1, ![t].total = @ + out.n]
                /\ token_queue' = Append(token_queue, Msg(out.status, step.path, out.n))
    /\ UNCHANGED <<active_threads, completed_walks>>
    /\ UnchangedUi
    /\ OnlyApp

\* A plausible slip: break instead of return, so that the cancelled worker
\* goes on to report its partial total as done
WorkerCancelled_falls_through(t) ==
    /\ threads[t].pc = "run"
    /\ threads[t].pos <= Len(WalkSteps(threads[t].dir))
    /\ cancel_operation
    /\ token_queue' = token_queue \o <<Msg("cancelled", <<>>, 0),
                                       Msg("done", threads[t].dir, threads[t].total)>>
    /\ threads' = [threads EXCEPT ![t].pc = "finally"]
    /\ UNCHANGED <<active_threads, completed_walks>>
    /\ UnchangedUi
    /\ OnlyApp

\* the worker finds the cancel flag set: ("cancelled", None), return
WorkerCancelled(t) ==
    /\ threads[t].pc = "run"
    /\ threads[t].pos <= Len(WalkSteps(threads[t].dir))
    /\ cancel_operation
    /\ token_queue' = Append(token_queue, Msg("cancelled", <<>>, 0))
    /\ threads' = [threads EXCEPT ![t].pc = "finally"]
    /\ UNCHANGED <<active_threads, completed_walks>>
    /\ UnchangedUi
    /\ OnlyApp

\* os.walk is exhausted: ("done", (directory_path, total_tokens))
WorkerDone(t) ==
    /\ threads[t].pc = "run"
    /\ threads[t].pos > Len(WalkSteps(threads[t].dir))
    /\ token_queue' = Append(token_queue, Msg("done", threads[t].dir, threads[t].total))
    /\ threads' = [threads EXCEPT ![t].pc = "finally"]
    /\ completed_walks' = completed_walks \cup {[dir |-> threads[t].dir, req |-> threads[t].cancel_req]}
    /\ UNCHANGED active_threads
    /\ UnchangedUi
    /\ OnlyApp

\* A plausible slip: the total is reported from the finally clause as well
WorkerFinally_reports(t) ==
    /\ threads[t].pc = "finally"
    /\ active_threads' = active_threads \ {t}
    /\ threads' = [threads EXCEPT ![t] = [FreeThread EXCEPT !.pc = "dead"]]
    /\ token_queue' = Append(token_queue, Msg("done", threads[t].dir, threads[t].total))
    /\ UNCHANGED completed_walks
    /\ UnchangedUi
    /\ OnlyApp

\* finally: self.active_threads.discard(thread); the thread ends
WorkerFinally(t) ==
    /\ threads[t].pc = "finally"
    /\ active_threads' = active_threads \ {t}
    /\ threads' = [threads EXCEPT ![t] = [FreeThread EXCEPT !.pc = "dead"]]
    /\ UNCHANGED <<token_queue, completed_walks>>
    /\ UnchangedUi
    /\ OnlyApp

-----------------------------------------------------------------------------
(* check_token_queue (src/main.py 433-489), run by root.after: one action   *)
(* per get_nowait, one for queue.Empty, one for the is_alive test           *)

UnchangedTree ==
    UNCHANGED <<dir_entry, filter_enabled, filter_entry, filter_button, exclude_enabled,
                exclude_entry, tree, clipboard, exclude_patterns, visited_paths,
                checked_items, overflow>>

PollRunning == ui_pc = "drain" \/ (ui_pc = "idle" /\ timers > 0)

TimersAfterEntry == IF ui_pc = "idle" THEN timers - 1 ELSE timers

SumResults(results) == SumOver(DOMAIN results, results)

\* the text populate_tree puts in the Tokens column, in characters
ColumnChars(s) ==
    CASE s = "(skipped)" -> <<"(", "s", "k", "i", "p", "p", "e", "d", ")">>
      [] s = "(symlink)" -> <<"(", "s", "y", "m", "l", "i", "n", "k", ")">>
      [] s = "(excluded)" -> <<"(", "e", "x", "c", "l", "u", "d", "e", "d", ")">>
      [] s = "(error)" -> <<"(", "e", "r", "r", "o", "r", ")">>
      [] s = "(binary)" -> <<"(", "b", "i", "n", "a", "r", "y", ")">>
      [] OTHER -> <<>>

\* update_item_tokens(item_path, tokens): the items directly under the root
\* are searched for one whose first value equals item_path.  The first value
\* is the Tokens column (a count comes back as a number, which no path
\* equals); on a hit values[1] = tokens is an assignment past the end of a
\* list of one value and raises
update_item_tokens(t, item_path, tokens) ==
    [tree |-> t,
     raised |-> \E k \in 1..Len(get_children(t, <<>>)) :
                    \E v \in {t.it[get_children(t, <<>>)[k]].values} :
                        v.s # "int" /\ ColumnChars(v.s) = PathStr(item_path)]

\* the branches of the loop body for one message
DrainMessage(msg) ==
    CASE msg.status = "progress" ->
            /\ IF update_item_tokens(tree, msg.path, msg.n).raised
               THEN cancel_button' = "disabled" /\ cancel_operation' = FALSE
               ELSE UNCHANGED <<cancel_button, cancel_operation>>
            /\ UNCHANGED <<calculated_directories, pending_calculations, calculation_results,
                           total_tokens_label>>
      [] msg.status = "error" ->
            /\ pending_calculations' =
                   IF pending_calculations.has /\ pending_calculations.n > 0
                   THEN [pending_calculations EXCEPT !.n = @ - 1]
                   ELSE pending_calculations
            /\ UNCHANGED <<calculated_directories, calculation_results, total_tokens_label,
                           cancel_button, cancel_operation>>
      [] msg.status = "done" ->
            /\ calculated_directories' = calculated_directories \cup {msg.path}
            /\ IF pending_calculations.has
               THEN LET results == (msg.path :> msg.n) @@ calculation_results
                        n == IF pending_calculations.n > 0
                             THEN pending_calculations.n - 1 ELSE pending_calculations.n
                    IN  /\ calculation_results' = results
                        /\ pending_calculations' = [pending_calculations EXCEPT !.n = n]
                        /\ IF n <= 0
                           THEN /\ total_tokens_label' = SumResults(results)
                                /\ cancel_button' = "disabled"
                                /\ cancel_operation' = FALSE
                           ELSE UNCHANGED <<total_tokens_label, cancel_button, cancel_operation>>
               ELSE /\ total_tokens_label' = msg.n
                    /\ cancel_button' = "disabled"
                    /\ cancel_operation' = FALSE
                    /\ UNCHANGED <<calculation_results, pending_calculations>>
      [] msg.status = "cancelled" ->
            /\ pending_calculations' = [pending_calculations EXCEPT !.n = 0]
            /\ cancel_button' = "disabled"
            /\ cancel_operation' = FALSE
            /\ UNCHANGED <<calculated_directories, calculation_results, total_tokens_label>>

\* one turn of the while loop: get_nowait returns a message
TickGet ==
    /\ PollRunning
    /\ token_queue # <<>>
    /\ token_queue' = Tail(token_queue)
    /\ DrainMessage(Head(token_queue))
    /\ timers' = TimersAfterEntry
    /\ \E msg \in {Head(token_queue)} :
           IF msg.status = "progress"
           THEN /\ tree' = update_item_tokens(tree, msg.path, msg.n).tree
                \* the exception ends check_token_queue (lines 486-488)
                /\ ui_pc' = IF update_item_tokens(tree, msg.path, msg.n).raised
                            THEN "idle" ELSE "drain"
           ELSE /\ tree' = tree
                /\ ui_pc' = "drain"
    /\ UNCHANGED <<threads, active_threads, completed_walks>>
    /\ UNCHANGED <<dir_entry, filter_enabled, filter_entry, filter_button, exclude_enabled,
                   exclude_entry, clipboard, exclude_patterns, visited_paths,
                   checked_items, overflow>>
    /\ OnlyApp

\* get_nowait raises queue.Empty
TickEmpty ==
    /\ PollRunning
    /\ token_queue = <<>>
    /\ timers' = TimersAfterEntry
    /\ ui_pc' = "alive"
    /\ UNCHANGED <<threads, active_threads, completed_walks, token_queue,
                   calculated_directories, pending_calculations, calculation_results,
                   total_tokens_label, cancel_button, cancel_operation>>
    /\ UnchangedTree
    /\ OnlyApp

\* the except branch: the poll is scheduled again while a thread of
\* active_threads is alive, else cleanup_calculation_ui
TickAlive ==
    /\ ui_pc = "alive"
    /\ IF \E t \in active_threads : is_alive(threads, t)
       THEN /\ timers' = timers + 1
            /\ UNCHANGED <<cancel_button, cancel_operation>>
       ELSE /\ cancel_button' = "disabled"
            /\ cancel_operation' = FALSE
            /\ UNCHANGED timers
    /\ ui_pc' = "idle"
    /\ UNCHANGED <<threads, active_threads, completed_walks, token_queue,
                   calculated_directories, pending_calculations, calculation_results,
                   total_tokens_label>>
    /\ UnchangedTree
    /\ OnlyApp

-----------------------------------------------------------------------------
(* The application after MainApplication.__init__ (src/main.py 12-38)       *)

InitApp ==
    /\ dir_entry = <<>>
    /\ filter_enabled = FALSE
    /\ filter_entry = EntryInsert("disabled", <<>>, DefaultFilterText)
    /\ filter_button = "disabled"
    /\ exclude_enabled = TRUE
    /\ exclude_entry = DefaultExcludeText
    /\ cancel_button = "disabled"
    /\ total_tokens_label = 0
    /\ tree = EmptyTree
    /\ clipboard = [files |-> {}]
    /\ exclude_patterns = DEFAULT_EXCLUDE_PATTERNS
    /\ visited_paths = {}
    /\ checked_items = {}
    /\ calculated_directories = {}
    /\ cancel_operation = FALSE
    /\ active_threads = {}
    /\ token_queue = <<>>
    /\ pending_calculations = [has |-> FALSE, n |-> 0]
    /\ calculation_results = <<>>
    /\ threads = [t \in Threads |-> FreeThread]
    /\ timers = 0
    /\ ui_pc = "idle"
    /\ overflow = FALSE
    /\ completed_walks = {}

\* the events of the interactive thread
UserEvent ==
    \/ \E d \in Directories : browse_directory(d)
    \/ toggle_filter
    \/ \E text \in FilterTexts : edit_filter(text)
    \/ apply_filter
    \/ toggle_exclude
    \/ \E item \in FolderItems : on_folder_open(item)
    \/ \E item \in FolderItems : on_folder_close(item)
    \/ \E item \in ClickTargets : handle_click(item)
    \/ expand_all_folders
    \/ collapse_all_folders
    \/ cancel_current_operation
    \/ copy_markdown_to_clipboard

\* the steps of the worker threads
WorkerStep ==
    \E t \in Threads :
        \/ WorkerVisit(t)
        \/ WorkerCancelled(t)
        \/ WorkerDone(t)
        \/ WorkerFinally(t)

\* the steps of check_token_queue
Poll == TickGet \/ TickEmpty \/ TickAlive

-----------------------------------------------------------------------------
(* FileHandler alone: calls of should_exclude                               *)

\* the characters of the paths given to should_exclude
ExAlphabet == {"e", "n", Sep, AltSep}
ExPaths == UNION {[1..n -> ExAlphabet] : n \in 0..MaxPathLen}
\* the pattern sets a FileHandler is made with
ExPatternSets == SUBSET {<<"e">>, <<"e", "n">>, <<"n">>}

NoResult == [called |-> FALSE, value |-> FALSE]

IdleExclude ==
    /\ ex_path = <<>>
    /\ ex_patterns = {}
    /\ ex_result = NoResult

NoFiles == [called |-> FALSE, directory |-> <<>>, extensions |-> <<>>, ok |-> FALSE,
            files |-> <<>>, before |-> {}]

IdleSafe ==
    /\ sp_visited = {}
    /\ sp_passed = {}
    /\ sp_files = NoFiles
    /\ sp_last = [op |-> "none", path |-> <<>>, result |-> FALSE, before |-> {},
                  passed |-> {}]

NoDigest == [called |-> FALSE, by |-> "", file_paths |-> <<>>, ok |-> FALSE, content |-> <<>>]

IdleCompose ==
    /\ md_disk = <<>>
    /\ md_selected = <<>>
    /\ md_patterns = {}
    /\ md_result = NoDigest

InitExclude ==
    /\ fs = 1
    /\ InitApp
    /\ IdleSafe
    /\ IdleCompose
    /\ ex_path \in ExPaths
    /\ ex_patterns \in ExPatternSets
    /\ ex_result = NoResult

\* FileHandler(ex_patterns).should_exclude(ex_path)
ShouldExcludeCall ==
    /\ ~ex_result.called
    /\ ex_result' = [called |-> TRUE, value |-> should_exclude(ex_path, ex_patterns)]
    /\ UNCHANGED <<fs, ex_path, ex_patterns, spVars, mdVars, appVars>>

SpecExclude == InitExclude /\ [][ShouldExcludeCall]_vars

-----------------------------------------------------------------------------
(* The pruning test of the digest's directory tree alone                    *)

\* the relative paths of directory entries: names joined by os.sep
RelPaths ==
    {p \in ExPaths :
        /\ p # <<>>
        /\ \A i \in 1..Len(p) : p[i] # AltSep
        /\ \A i \in 1..Len(StrSplit(p, Sep)) : StrSplit(p, Sep)[i] # <<>>}

InitPrune ==
    /\ fs = 1
    /\ InitApp
    /\ IdleSafe
    /\ IdleCompose
    /\ ex_path \in RelPaths
    /\ ex_patterns \in ExPatternSets
    /\ ex_result = NoResult

\* the test of add_directory_to_tree on an entry whose relative path is
\* ex_path, the generator holding ex_patterns
SkipExcludedCall ==
    /\ ~ex_result.called
    /\ ex_result' = [called |-> TRUE, value |-> SkipExcluded(ex_path, ex_patterns)]
    /\ UNCHANGED <<fs, ex_path, ex_patterns, spVars, mdVars, appVars>>

SpecPrune == InitPrune /\ [][SkipExcludedCall]_vars

-----------------------------------------------------------------------------
(* MarkdownGenerator alone: the composition of a digest from a selection    *)

\* the files that can be selected: one that does not decode, one with a
\* null byte, one text file
ComposeFiles == {pUpy, pBpy, pTpy}

\* selected_files as copy_markdown_to_clipboard collects it: a file is there
\* once for itself and once for every checked folder above it
Selections == UNION {[1..n -> ComposeFiles] : n \in 1..MaxSelected}

ComposePatternSets == SUBSET {<<"t">>, nUpy}

\* the contents of the text file
Contents == UNION {[1..n -> {"x", LF, CR, Backtick}] : n \in 0..MaxContent}

\* the bytes of b.py: a null byte, or bytes that are not UTF-8
OtherContents == {<<"0x00">>, <<"0xE9">>}

Disk(other, content) == pUpy :> <<"0xE9">> @@ pBpy :> other @@ pTpy :> content

InitCompose ==
    /\ fs = 3
    /\ InitApp
    /\ IdleExclude
    /\ IdleSafe
    /\ md_disk \in {Disk(o, c) : o \in OtherContents, c \in Contents}
    /\ md_selected = <<>>
    /\ md_patterns = {}
    /\ md_result = NoDigest

\* copy_markdown_to_clipboard from line 619 on, selected_files being given:
\* the duplicates go, the generator gets the patterns and composes
ComposeSelection(selected_files, patterns) ==
    /\ ~md_result.called
    /\ md_selected' = selected_files
    /\ md_patterns' = patterns
    /\ md_result' = [called |-> TRUE, by |-> "copy_markdown_to_clipboard",
                     file_paths |-> Dedup({}, selected_files)] @@
                    generate_markdown_to_string(Dedup({}, selected_files), patterns, md_disk)
    /\ UNCHANGED <<fs, md_disk, exVars, spVars, appVars>>

\* generate_markdown_to_string called with file_paths as they are
GenerateCall(file_paths, patterns) ==
    /\ ~md_result.called
    /\ md_selected' = file_paths
    /\ md_patterns' = patterns
    /\ md_result' = [called |-> TRUE, by |-> "generate_markdown_to_string",
                     file_paths |-> file_paths] @@
                    generate_markdown_to_string(file_paths, patterns, md_disk)
    /\ UNCHANGED <<fs, md_disk, exVars, spVars, appVars>>

NextCompose ==
    \E selected_files \in Selections, patterns \in ComposePatternSets :
        \/ ComposeSelection(selected_files, patterns)
        \/ GenerateCall(selected_files, patterns)

SpecCompose == InitCompose /\ [][NextCompose]_vars

-----------------------------------------------------------------------------
(* FileHandler alone: calls of is_safe_path and clear_visited_paths         *)

\* the paths given to is_safe_path: directories, symlinks to them (or names
\* of nothing, in the other file system), and a path os.path.realpath raises on
SafePaths == {pR, pA, pL, pEnv, pK, <<nR, nNul>>}

InitSafe ==
    /\ fs \in Workspaces
    /\ InitApp
    /\ IdleExclude
    /\ IdleSafe
    /\ IdleCompose

\* is_safe_path(path); sp_passed remembers the real paths passed since the
\* last clear
IsSafePathCall(path) ==
    /\ LET r == is_safe_path(path, sp_visited)
       IN  /\ sp_visited' = r.visited
           /\ sp_last' = [op |-> "is_safe_path", path |-> path, result |-> r.ok,
                          before |-> sp_visited, passed |-> sp_passed]
    /\ sp_passed' = IF Resolvable(path) THEN sp_passed \cup {realpath(path)} ELSE sp_passed
    /\ UNCHANGED <<fs, sp_files, exVars, mdVars, appVars>>

ClearVisitedPathsCall ==
    /\ sp_visited' = clear_visited_paths(sp_visited)
    /\ sp_passed' = {}
    /\ sp_last' = [op |-> "clear_visited_paths", path |-> <<>>, result |-> FALSE,
                   before |-> sp_visited, passed |-> sp_passed]
    /\ UNCHANGED <<fs, sp_files, exVars, mdVars, appVars>>

NextSafe ==
    \/ \E path \in SafePaths : IsSafePathCall(path)
    \/ ClearVisitedPathsCall

SpecSafe == InitSafe /\ [][NextSafe]_vars

-----------------------------------------------------------------------------
(* FileHandler alone: calls of get_files after calls of is_safe_path        *)

MaxExtensions == 2

\* the extensions argument: None or a list
ExtensionLists ==
    UNION {[1..n -> {<<".", "p", "y">>, <<".", "P", "Y">>, <<"k">>}] : n \in 0..MaxExtensions}

\* the directory argument: directories, a symlink to one, a file, and names
\* of nothing
pMissing == <<nR, <<"x">>>>
GetFilesDirectories == {pR, pA, pL, pD, pTpy, pMissing, <<nR, nNul>>}

\* get_files(directory, extensions) on a handler with the default patterns
GetFilesCall(directory, extensions) ==
    /\ ~sp_files.called
    /\ LET r == get_files(directory, extensions, DEFAULT_EXCLUDE_PATTERNS, sp_visited)
       IN  /\ sp_visited' = r.visited
           /\ sp_files' = [called |-> TRUE, directory |-> directory, extensions |-> extensions,
                           ok |-> r.ok, files |-> r.files, before |-> sp_visited]
    /\ UNCHANGED <<fs, sp_passed, sp_last, exVars, mdVars, appVars>>

NextFiles ==
    \/ \E path \in SafePaths : ~sp_files.called /\ IsSafePathCall(path)
    \/ \E directory \in GetFilesDirectories, extensions \in ExtensionLists :
           GetFilesCall(directory, extensions)

SpecFiles == InitSafe /\ [][NextFiles]_vars

-----------------------------------------------------------------------------
(* The application.  Spec is all of it.  Its state space is the product of  *)
(* the tree, the settings and the calculation, so the properties below are  *)
(* checked on three parts of it, each with all of its handlers whole:       *)
(*   SpecTree    the tree and the selection; workers started by a handler   *)
(*               are not scheduled                                          *)
(*   SpecDigest  selecting and copying                                      *)
(*   SpecCalc    the settings and the token calculation: the workers and    *)
(*               the poll run, the user only refreshes, expands and cancels *)

Init ==
    /\ fs \in Workspaces
    /\ InitApp
    /\ IdleExclude
    /\ IdleSafe
    /\ IdleCompose

Next == UserEvent \/ WorkerStep \/ Poll

Spec == Init /\ [][Next]_vars

TreeEvent ==
    \/ \E d \in Directories : browse_directory(d)
    \/ toggle_exclude
    \/ \E item \in FolderItems : on_folder_open(item)
    \/ \E item \in FolderItems : on_folder_close(item)
    \/ \E item \in ClickTargets : handle_click(item)
    \/ expand_all_folders
    \/ collapse_all_folders

SpecTree == Init /\ [][TreeEvent]_vars

DigestEvent ==
    \/ \E d \in Directories : browse_directory(d)
    \/ \E item \in FolderItems : on_folder_open(item)
    \/ \E item \in FolderItems : on_folder_close(item)
    \/ \E item \in ClickTargets : handle_click(item)
    \/ copy_markdown_to_clipboard

InitDigest ==
    /\ fs = 2
    /\ InitApp
    /\ IdleExclude
    /\ IdleSafe
    /\ IdleCompose

SpecDigest == InitDigest /\ [][DigestEvent]_vars

CalcEvent ==
    \/ \E d \in Directories : browse_directory(d)
    \/ toggle_filter
    \/ apply_filter
    \/ toggle_exclude
    \/ expand_all_folders
    \/ cancel_current_operation

NextCalc == CalcEvent \/ WorkerStep \/ Poll

InitCalc ==
    /\ fs = 1
    /\ InitApp
    /\ IdleExclude
    /\ IdleSafe
    /\ IdleCompose

SpecCalc == InitCalc /\ [][NextCalc]_vars

-----------------------------------------------------------------------------
(* Properties of FileHandler                                                *)

IsSeparator(c) == c = Sep \/ c = AltSep

\* path[i..j] is a component: a longest piece without a separator
IsComponent(path, i, j) ==
    /\ \A k \in i..j : ~IsSeparator(path[k])
    /\ i = 1 \/ IsSeparator(path[i-1])
    /\ j = Len(path) \/ IsSeparator(path[j+1])

HasPatternComponent(path, patterns) ==
    \E i \in 1..(Len(path) + 1) : \E j \in (i-1)..Len(path) :
        IsComponent(path, i, j) /\ SubSeq(path, i, j) \in patterns

\* C1: should_exclude(p) is true if and only if a component of p, split on
\* both '/' and '\', equals a pattern; a component that only contains a
\* pattern does not count.
C1_ExactComponent ==
    ex_result.called =>
        (ex_result.value <=> HasPatternComponent(ex_path, ex_patterns))

\* should_exclude has answered FALSE for n\en with the pattern e, which the
\* component en contains
C1_Witness ==
    /\ ex_result.called
    /\ ex_path = <<"n", AltSep, "e", "n">>
    /\ ex_patterns = {<<"e">>}
    /\ ~ex_result.value

\* C2: is_safe_path(p) returns true exactly when the real path of p has not
\* been passed to is_safe_path since the last clear_visited_paths, and then
\* visited_paths gains it; when it returns false visited_paths is unchanged.
C2_SafePathOnce ==
    sp_last.op = "is_safe_path" =>
        /\ sp_last.result <=>
               (Resolvable(sp_last.path) /\ realpath(sp_last.path) \notin sp_last.passed)
        /\ sp_last.result => sp_visited = sp_last.before \cup {realpath(sp_last.path)}
        /\ ~sp_last.result => sp_visited = sp_last.before

\* is_safe_path has refused the symlink l after its target r/A was passed
C2_Witness ==
    /\ fs = 1
    /\ sp_last.op = "is_safe_path"
    /\ sp_last.path = pL
    /\ ~sp_last.result
    /\ sp_last.passed = {pA}
    /\ sp_visited = {pA}

-----------------------------------------------------------------------------
(* Properties of the tree and the selection                                 *)

RECURSIVE Descendants(_, _)
\* the items below item in the tree t
Descendants(t, item) ==
    LET c == Range(get_children(t, item))
    IN  c \cup UNION {Descendants(t, k) : k \in c}

RECURSIVE Reached(_, _)
\* the items below item with no excluded item on the way down to them
Reached(t, item) ==
    LET c == {k \in Range(get_children(t, item)) : "excluded" \notin Tags(t, k)}
    IN  c \cup UNION {Reached(t, k) : k \in c}

Markers == {i \in Items : tree.it[i].values.s = "(skipped)"}
LinkMarker == Append(pL, nSkipped)

\* C3: with A/l -> A, walking A (checking A, or Expand All over A) ends,
\* and the tree then holds exactly one "Skipped: Potential circular
\* reference" marker, under the link.
C3_CycleWalkEnds ==
    fs = 1 =>
        /\ ~overflow
        /\ Markers \subseteq {LinkMarker}
        /\ (pA \in checked_items \/ pL \in checked_items) =>
               (Markers = {LinkMarker} /\ get_children(tree, pL) = <<LinkMarker>>)

\* A has been checked: the walk went through the link and left its marker
C3_Witness ==
    /\ fs = 1
    /\ {pA, pL, pApy, LinkMarker} \subseteq checked_items
    /\ Markers = {LinkMarker}
    /\ ~overflow

\* C4: whatever the clicks, openings, closings, Expand All, Collapse All
\* and refreshes, no item tagged excluded is in checked_items.
C4_ExcludedNeverChecked ==
    \A i \in checked_items \cap Items : "excluded" \notin Tags(tree, i)

\* A is checked and holds an excluded folder, opened, with an excluded file
C4_Witness ==
    /\ fs = 2
    /\ {pA, pApy} \subseteq checked_items
    /\ {pEnv, pSpy} \subseteq Items
    /\ "excluded" \in Tags(tree, pEnv) \cap Tags(tree, pSpy)
    /\ tree.it[pA].text.mark = "checked"

Materialized(t, item) ==
    \A c \in Range(get_children(t, item)) : "dummy" \notin Tags(t, c)

\* a click on the empty box of a folder that is not excluded:
\* check_item_and_children(item)
CheckClick(item) ==
    /\ "excluded" \notin Tags(tree, item)
    /\ tree.it[item].text.mark = "unchecked"
    /\ handle_click(item)

\* C6, as it holds: right after check_item_and_children(folder) on a folder
\* that is not excluded, the folder shows no placeholder, and the folder and
\* every item below it that is neither tagged excluded nor below an item
\* tagged excluded are in checked_items.
C6_CheckReaches ==
    [][\A item \in FolderItems :
          CheckClick(item) =>
              (/\ Materialized(tree, item)
               /\ ({item} \cup Reached(tree, item)) \subseteq checked_items)']_vars

\* C6, as stated: ... every item below it that is not tagged excluded, at
\* every depth, is in checked_items (a placeholder is no item of the
\* materialized subtree).
C6_CheckReachesAllNotExcluded ==
    [][\A item \in FolderItems :
          CheckClick(item) =>
              (/\ Materialized(tree, item)
               /\ \A i \in {item} \cup Descendants(tree, item) :
                      (/\ "excluded" \notin Tags(tree, i)
                       /\ "dummy" \notin Tags(tree, i)) => i \in checked_items)']_vars

\* A was checked by a click while its excluded folder showed the symlink k:
\* the file of A is checked, k is not
C6_Witness ==
    /\ fs = 2
    /\ {pA, pApy} \subseteq checked_items
    /\ tree.it[pA].text.mark = "checked"
    /\ pK \in Items
    /\ tree.it[pK].text.mark = "symlink"
    /\ pK \notin checked_items

\* a click on the ticked box of a folder, or the closing of a folder that is
\* not ticked: uncheck_item_and_children(item)
UncheckCall(item) ==
    /\ "excluded" \notin Tags(tree, item)
    /\ \/ tree.it[item].text.mark = "checked" /\ handle_click(item)
       \/ tree.it[item].text.mark # "checked" /\ on_folder_close(item)

\* C7: right after uncheck_item_and_children(folder), neither the folder
\* nor any item below it is in checked_items, and checked_items is
\* unchanged elsewhere.
C7_UncheckClearsSubtree ==
    [][\A item \in FolderItems :
          UncheckCall(item) =>
              LET sub == {item} \cup Descendants(tree, item)
              IN  /\ checked_items' \cap sub = {}
                  /\ checked_items' \ sub = checked_items \ sub]_vars

-----------------------------------------------------------------------------
(* Properties of the digest                                                 *)

\* C5: no file that is excluded, or lies under an excluded folder, is among
\* the files handed to the composer, whatever is checked above it.
C5_DigestSkipsExcluded ==
    \A f \in clipboard.files : ~Excluded(f, Cfg)

-----------------------------------------------------------------------------
(* Properties of the token calculation                                      *)

\* C8: a directory whose worker was in flight, with a look at the cancel
\* flag still ahead, when Cancel was pressed is not in
\* calculated_directories unless another worker walked it undisturbed.
C8_CancelledNotMemoized ==
    \A D \in calculated_directories :
        \E w \in completed_walks : w.dir = D /\ ~w.req

\* C9: a directory is in calculated_directories only if a worker walked it
\* to the end, never finding the cancel flag set, and enqueued done for it.
C9_MemoizedOnlyIfWalked ==
    \A D \in calculated_directories :
        \E w \in completed_walks : w.dir = D

\* both workers of Expand All are gone and all is drained: the walk of A
\* was finished and is memoized, the walk of the link was cancelled and is not
C9_Witness ==
    /\ \A t \in Threads : threads[t].pc = "dead"
    /\ token_queue = <<>>
    /\ calculated_directories = {pA}
    /\ {w.dir : w \in completed_walks} = {pA}

\* the handlers that end in refresh_files
RefreshEvent ==
    \/ \E d \in Directories : browse_directory(d)
    \/ toggle_filter /\ ~filter_enabled'
    \/ apply_filter
    \/ toggle_exclude

\* C10: after toggle_exclude, toggle_filter / Apply Filter or
\* browse_directory, each ending in refresh_files, calculated_directories
\* is empty.
C10_RefreshClearsCache ==
    [][RefreshEvent => calculated_directories' = {}]_vars


\* selection and token calculation over the file system without symlinks
CountEvent ==
    \/ \E d \in Directories : browse_directory(d)
    \/ \E item \in ClickTargets \ FolderItems : handle_click(item)
    \/ expand_all_folders
    \/ cancel_current_operation

NextCount == CountEvent \/ WorkerStep \/ Poll

InitCount ==
    /\ fs = 3
    /\ InitApp
    /\ IdleExclude
    /\ IdleSafe
    /\ IdleCompose

SpecCount == InitCount /\ [][NextCount]_vars

-----------------------------------------------------------------------------
(* Properties of the displayed total                                        *)

\* the known integer counts of the checked file items that are not binary,
\* error or excluded
CheckedTokenSum ==
    LET files == {i \in checked_items \cap Items :
                     /\ "file" \in Tags(tree, i)
                     /\ Tags(tree, i) \cap {"binary", "error", "excluded"} = {}}
    IN  SumOver(files, [i \in files |->
                          IF tree.it[i].values.s = "int" THEN tree.it[i].values.n ELSE 0])

\* C11: after every handled event (the queue-drain ticks included) the total
\* shown equals the sum of the known counts of the checked file items that
\* are not binary, error or excluded.
C11_TotalIsCheckedSum ==
    ui_pc = "idle" => total_tokens_label = CheckedTokenSum

-----------------------------------------------------------------------------
(* Properties of binary files                                               *)

BinaryOnDisk(path) == isfile(path) /\ FS.files[realpath(path)].binary

\* the tokens of the files a walk of dir meets that are not binary
TextTotalUnder(dir) ==
    LET steps == WalkSteps(dir)
        texts == {k \in 1..Len(steps) :
                     steps[k].kind = "file" /\ ~BinaryOnDisk(steps[k].path)}
    IN  SumOver(texts, [k \in texts |-> FS.files[realpath(steps[k].path)].tokens])

\* the counts shown for the checked files that are not binary
CheckedTextSum ==
    LET texts == {i \in checked_items \cap Items :
                     "file" \in Tags(tree, i) /\ ~BinaryOnDisk(i)}
    IN  SumOver(texts, [i \in texts |->
                          IF tree.it[i].values.s = "int" THEN tree.it[i].values.n ELSE 0])

\* C12: a binary file has token count 0 and is shown as binary; the total
\* computed over the checked set is the total of the other checked files,
\* even when the binary file is checked by itself; the background
\* calculation reports nothing for it and leaves it out of the directory's
\* total.
C12_BinaryCountsNothing ==
    /\ \A i \in Items :
           (BinaryOnDisk(i) /\ "file" \in Tags(tree, i) /\ "excluded" \notin Tags(tree, i)) =>
               /\ count_tokens_in_file(i) = [ok |-> TRUE, n |-> 0]
               /\ tree.it[i].values = [s |-> "(binary)", n |-> 0]
    /\ update_total_tokens(tree, checked_items).total = CheckedTextSum
    /\ \A k \in 1..Len(token_queue) :
           /\ token_queue[k].status = "progress" => ~BinaryOnDisk(token_queue[k].path)
           /\ token_queue[k].status = "done" =>
                  token_queue[k].n <= TextTotalUnder(token_queue[k].path)
    /\ \A d \in DOMAIN calculation_results : calculation_results[d] <= TextTotalUnder(d)

\* the binary file of D is checked and the text file beside it is not: the
\* total shown is 0, and the calculation of D came to the one token of the
\* text file
C12_Witness ==
    /\ fs = 3
    /\ pBpy \in checked_items
    /\ pTpy \in Items \ checked_items
    /\ total_tokens_label = 0
    /\ pD \in DOMAIN calculation_results
    /\ calculation_results[pD] = 1

-----------------------------------------------------------------------------
(* Properties of the listing of a folder                                    *)

\* C13: without symlinks, when populate_tree is invoked a second time for a
\* folder (the folder is opened again after it materialized with no
\* children), the second listing yields the same items as the first: none.
C13_RelistingIsStable ==
    [][\A item \in FolderItems :
          (/\ fs = 3
           /\ realpath(item) \in visited_paths
           /\ get_children(tree, item) = <<>>
           /\ on_folder_open(item))
              => get_children(tree', item) = <<>>]_vars

RECURSIVE Ascending(_, _)
\* s comes before t, character by character, upper case before lower case
Ascending(s, t) ==
    /\ t # <<>>
    /\ \/ s = <<>>
       \/ CodePoint(Head(s)) < CodePoint(Head(t))
       \/ (Head(s) = Head(t) /\ Ascending(Tail(s), Tail(t)))

\* the items populate_tree inserted under parent for the entries of a folder
Listed(parent) ==
    SelectSeq(get_children(tree, parent),
              LAMBDA c : Tags(tree, c) \cap {"folder", "file"} # {})

\* C14: the items populate_tree inserts for one folder have every folder
\* item before every file item, and within each group the names ascend,
\* case-sensitively.
C14_FoldersFirstAscending ==
    \A parent \in DOMAIN tree.kids :
        LET c == Listed(parent)
        IN  \A i, j \in 1..Len(c) :
                i < j =>
                    /\ ~("file" \in Tags(tree, c[i]) /\ "folder" \in Tags(tree, c[j]))
                    /\ ("folder" \in Tags(tree, c[i]) <=> "folder" \in Tags(tree, c[j]))
                           => Ascending(Last(c[i]), Last(c[j]))

\* the root of the third file system is listed: D before a, though a
\* lower-case d would follow a, and the file A.py after both folders
C14_Witness ==
    /\ fs = 3
    /\ Listed(<<>>) = <<pD, pLow, pUpy>>
    /\ pD \in checked_items
    /\ Listed(pD) = <<pBpy, pTpy>>

-----------------------------------------------------------------------------
(* Properties of the digest's directory tree                                *)

\* C15: an entry of the directory tree is omitted if and only if a component
\* of its relative path equals an exclude pattern, that is, exactly when
\* FileHandler.should_exclude answers true for the path; a name that only
\* contains a pattern is rendered.
C15_PruneIsExactComponent ==
    ex_result.called =>
        /\ ex_result.value <=> HasPatternComponent(ex_path, ex_patterns)
        /\ ex_result.value <=> should_exclude(ex_path, ex_patterns)

\* the digest as its lines
DigestLines == StrSplit(md_result.content, LF)

\* where the connector of a tree line starts (its prefix is four characters
\* for every directory above the entry); 0 for a line without connector
ConnectorAt(line) ==
    IF \E k \in 1..Len(line) : line[k] \in {Tee, Elbow}
    THEN CHOOSE k \in 1..Len(line) :
             line[k] \in {Tee, Elbow} /\ \A j \in 1..(k - 1) : line[j] \notin {Tee, Elbow}
    ELSE 0

\* line k is an entry, and line j > k is the next rendered entry of the same
\* directory: only entries further down the tree lie between them
NextSibling(lines, k, j) ==
    /\ j > k
    /\ ConnectorAt(lines[j]) = ConnectorAt(lines[k])
    /\ \A m \in (k + 1)..(j - 1) : ConnectorAt(lines[m]) > ConnectorAt(lines[k])

\* C16: in the digest's directory tree the last rendered entry of every
\* directory is drawn with the connector of a last entry, and every other
\* rendered entry with the connector of an entry that is followed, whatever
\* the entries and the exclude patterns are.
C16_LastEntryConnector ==
    md_result.called =>
        \A k \in 1..Len(DigestLines) :
            ConnectorAt(DigestLines[k]) > 0 =>
                (DigestLines[k][ConnectorAt(DigestLines[k])] = Elbow
                    <=> ~\E j \in 1..Len(DigestLines) : NextSibling(DigestLines, k, j))

\* the paths of s in the order of their first occurrence
FirstAt(s) == {i \in 1..Len(s) : \A j \in 1..(i - 1) : s[j] # s[i]}

FirstOccurrences(s) ==
    [k \in 1..Cardinality(FirstAt(s)) |->
        s[CHOOSE i \in FirstAt(s) : Cardinality({j \in FirstAt(s) : j < i}) = k - 1]]

\* the header lines of the file sections of the digest, in order
IsSectionHeader(line) ==
    /\ Len(line) >= 2
    /\ line[1] = "#"
    /\ line[2] = " "
    /\ line \notin {StructureHeading, SelectedHeading}

SectionHeaders == SelectSeq(DigestLines, IsSectionHeader)

\* the header lines of one section for each path of s, in order
HeadersOf(s) ==
    [k \in 1..Len(s) |->
        <<"#", " ">> \o PathStr(relpath(s[k],
            CommonPath([i \in 1..Len(md_selected) |-> Front(md_selected[i])])))]

\* C17 (as stated): whatever sequence of paths generate_markdown_to_string is
\* given, the digest has one section for each distinct path, in the order of
\* the first occurrences; a repeated path has no second section.
C17_GeneratorDropsRepeats ==
    md_result.called => SectionHeaders = HeadersOf(FirstOccurrences(md_result.file_paths))

\* C17 (amended): whatever sequence of paths copy_markdown_to_clipboard has
\* collected from the checked items, the digest it copies has one section for
\* each distinct path, in the order of the first occurrences.
C17_ClipboardDropsRepeats ==
    (md_result.called /\ md_result.by = "copy_markdown_to_clipboard") =>
        SectionHeaders = HeadersOf(FirstOccurrences(md_selected))

\* a digest copied from a selection that names a file twice, another between
C17_Witness ==
    /\ md_result.called
    /\ md_result.by = "copy_markdown_to_clipboard"
    /\ md_selected = <<pTpy, pUpy, pTpy>>
    /\ Len(SectionHeaders) = 2

\* the lines of a digest without the empty piece after its last line end
LinesOf(content) ==
    IF content = <<>> THEN <<>> ELSE Front(StrSplit(content, LF))

\* the section of the k-th header line: from it to the line before the next
\* header line, or to the end
HeaderAt(lines) == {i \in 1..Len(lines) : IsSectionHeader(lines[i])}

NthHeader(lines, k) ==
    CHOOSE i \in HeaderAt(lines) : Cardinality({j \in HeaderAt(lines) : j < i}) = k - 1

SectionBlock(lines, k) ==
    SubSeq(lines, NthHeader(lines, k),
           IF k < Cardinality(HeaderAt(lines)) THEN NthHeader(lines, k + 1) - 1
           ELSE Len(lines))

SectionBlocks(lines) == [k \in 1..Cardinality(HeaderAt(lines)) |-> SectionBlock(lines, k)]

\* the given paths whose read fails, and the sequence of the others
FailsAt(file_paths) == {k \in 1..Len(file_paths) : ~ReadFile(file_paths[k], md_disk).ok}

IsRead(file_path) == ReadFile(file_path, md_disk).ok

Dirnames(file_paths) == [i \in 1..Len(file_paths) |-> Front(file_paths[i])]

\* the sections of the digest at the places of the files that were read
ReadBlocks(file_paths, blocks) ==
    LET at == {k \in 1..Len(file_paths) : k \notin FailsAt(file_paths)}
    IN  [n \in 1..Cardinality(at) |->
            blocks[CHOOSE k \in at : Cardinality({j \in at : j < k}) = n - 1]]

\* the call succeeds and the section of every file that could not be read is
\* its header, an empty line, one line with the error, an empty line
FailureIsInline(file_paths) ==
    /\ md_result.ok
    /\ Len(SectionBlocks(LinesOf(md_result.content))) = Len(file_paths)
    /\ \A k \in FailsAt(file_paths) :
           LET block == SectionBlock(LinesOf(md_result.content), k)
           IN  /\ Len(block) = 4
               /\ block[1] = HeadersOf(file_paths)[k]
               /\ block[2] = <<>>
               /\ Len(block[3]) > Len(ReadErrorPrefix)
               /\ SubSeq(block[3], 1, Len(ReadErrorPrefix)) = ReadErrorPrefix
               /\ block[4] = <<>>

\* the sections of the files that were read are those of the digest of these
\* files alone
RestAsIfAbsent(file_paths) ==
    SelectSeq(file_paths, IsRead) # <<>> =>
        ReadBlocks(file_paths, SectionBlocks(LinesOf(md_result.content)))
            = SectionBlocks(LinesOf(
                  generate_markdown_to_string(SelectSeq(file_paths, IsRead),
                                              md_patterns, md_disk).content))

\* C18 (as stated): when the read of a selected file fails the call still
\* succeeds, the file has its header and an error line in place of the fenced
\* block, and the sections of the other files are those of a digest composed
\* without the failing file.
C18_FailureLeavesRestAsIfAbsent ==
    (md_result.called /\ FailsAt(md_result.file_paths) # {}) =>
        /\ FailureIsInline(md_result.file_paths)
        /\ RestAsIfAbsent(md_result.file_paths)

\* C18 (amended): the same, the sections of the other files being those of a
\* digest composed without the failing file when the files that were read
\* have the common directory of all the given files; the headers are relative
\* to the common directory of all of them, the failing ones included.
C18_FailureLeavesRestInPlace ==
    (md_result.called /\ FailsAt(md_result.file_paths) # {}) =>
        /\ FailureIsInline(md_result.file_paths)
        /\ (SelectSeq(md_result.file_paths, IsRead) # <<>>
              /\ CommonPath(Dirnames(SelectSeq(md_result.file_paths, IsRead)))
                     = CommonPath(Dirnames(md_result.file_paths)))
             => RestAsIfAbsent(md_result.file_paths)
        /\ \A k \in 1..Len(md_result.file_paths) :
               SectionBlock(LinesOf(md_result.content), k)[1]
                   = HeadersOf(md_result.file_paths)[k]

\* b.py does not decode and t.py beside it is read: two sections
C18_Witness ==
    /\ md_result.called
    /\ md_result.file_paths = <<pBpy, pTpy>>
    /\ FailsAt(md_result.file_paths) = {1}
    /\ md_disk[pTpy] = <<"x">>
    /\ Len(SectionBlocks(LinesOf(md_result.content))) = 2

\* s without the line ends at its end
RECURSIVE StripLineEnds(_)
StripLineEnds(s) ==
    IF s # <<>> /\ Last(s) \in {LF, CR} THEN StripLineEnds(Front(s)) ELSE s

\* the lines of a section between its opening fence line, the first line
\* after the header that starts with a fence, and its closing fence line,
\* the last line that is a fence
FencedText(block) ==
    LET open == CHOOSE i \in 1..Len(block) :
                    /\ Contains(block[i], Fence)
                    /\ \A j \in 1..(i - 1) : ~Contains(block[j], Fence)
        close == CHOOSE i \in 1..Len(block) :
                    /\ block[i] = Fence
                    /\ \A j \in (i + 1)..Len(block) : block[j] # Fence
    IN  Join(SubSeq(block, open + 1, close - 1), LF)

\* C19: the digest of a single file that can be read and whose content has
\* no fence holds, between the opening and the closing fence line of the
\* file's section, the content of the file, line ends at the end set aside.
C19_ContentRoundTrip ==
    (/\ md_result.called
     /\ Len(md_result.file_paths) = 1
     /\ IsRead(md_result.file_paths[1])
     /\ ~Contains(md_disk[md_result.file_paths[1]], Fence)) =>
        StripLineEnds(FencedText(SectionBlock(LinesOf(md_result.content), 1)))
            = StripLineEnds(md_disk[md_result.file_paths[1]])

\* the line of the closing fence of the tree: the second fence line
ClosingFence(lines) ==
    CHOOSE c \in 1..Len(lines) :
        /\ lines[c] = Fence
        /\ Cardinality({o \in 1..(c - 1) : lines[o] = Fence}) = 1

\* the digest is the heading of the tree, `before` empty lines, the opening
\* fence, the line of the root and the lines of the entries, the closing
\* fence, `after` empty lines, the heading of the sections, one empty line
\* and the sections, the last of which ends the digest
DigestShape(lines, before, after) ==
    LET c == ClosingFence(lines)
    IN  /\ Len(lines) >= before + after + 7
        /\ lines[1] = StructureHeading
        /\ \A i \in 2..(before + 1) : lines[i] = <<>>
        /\ lines[before + 2] = Fence
        /\ lines[before + 3] = <<Package, " ">> \o Last(RepoRoot(CommonPath(Dirnames(md_result.file_paths))))
        /\ c > before + 3
        /\ \A i \in (before + 4)..(c - 1) : ConnectorAt(lines[i]) > 0
        /\ c + after + 3 <= Len(lines)
        /\ \A i \in (c + 1)..(c + after) : lines[i] = <<>>
        /\ lines[c + after + 1] = SelectedHeading
        /\ lines[c + after + 2] = <<>>
        /\ HeaderAt(lines) # {}
        /\ NthHeader(lines, 1) = c + after + 3
        /\ lines[Len(lines)] = <<>>
        /\ \/ lines[Len(lines) - 1] = Fence
           \/ SubSeq(lines[Len(lines) - 1], 1, Len(ReadErrorPrefix)) = ReadErrorPrefix
        /\ md_result.content = Join(lines, LF) \o <<LF>>

\* C20 (as stated): the digest of a non-empty selection is the line
\* '# Repository Structure', at once the opening fence line, the tree lines,
\* the closing fence line, exactly one empty line, '# Selected Files', one
\* empty line and the file sections; nothing follows the last section.
C20_HeadingThenFence ==
    md_result.called => DigestShape(LinesOf(md_result.content), 0, 1)

\* C20 (amended): the digest of a non-empty selection is the line
\* '# Repository Structure', one empty line, the opening fence line, the tree
\* lines, the closing fence line, exactly two empty lines, '# Selected
\* Files', one empty line and the file sections; nothing follows the last
\* section.
C20_HeadingEmptyLineFence ==
    md_result.called => DigestShape(LinesOf(md_result.content), 1, 2)

\* a digest of two files, one of them not read, with a tree of entries
C20_Witness ==
    /\ md_result.called
    /\ md_result.file_paths = <<pTpy, pUpy>>
    /\ md_patterns = {}
    /\ ClosingFence(LinesOf(md_result.content)) = 10
    /\ Len(SectionBlocks(LinesOf(md_result.content))) = 2

-----------------------------------------------------------------------------
(* The extension filter                                                     *)

\* the settings of the filter, listing and token calculation over a
\* directory with files of two kinds of name
FilterEvent ==
    \/ \E d \in Directories : browse_directory(d)
    \/ toggle_filter
    \/ \E text \in FilterTexts : edit_filter(text)
    \/ apply_filter
    \/ expand_all_folders

\* the workers, which are not cancelled here
FilterWorkerStep ==
    \E t \in Threads : WorkerVisit(t) \/ WorkerDone(t) \/ WorkerFinally(t)

NextFilter == FilterEvent \/ FilterWorkerStep \/ Poll

InitFilter ==
    /\ fs = 4
    /\ InitApp
    /\ IdleExclude
    /\ IdleSafe
    /\ IdleCompose

SpecFilter == InitFilter /\ [][NextFilter]_vars

\* the directory an item of the tree shows: the root "" shows dir_entry
ShownPath(item) == IF item = <<>> THEN dir_entry ELSE item

\* every regular file of the listed folders that is not excluded has its
\* file item
EveryFileListed ==
    dir_entry # <<>> =>
        \A f \in {<<>>} \cup {i \in FolderItems : "excluded" \notin Tags(tree, i)} :
            (isdir(ShownPath(f)) /\ Materialized(tree, f)) =>
                \A n \in listdir(ShownPath(f)) :
                    (isfile(Append(ShownPath(f), n)) /\ ~Excluded(Append(ShownPath(f), n), Cfg))
                        => /\ Append(ShownPath(f), n) \in Items
                           /\ "file" \in Tags(tree, Append(ShownPath(f), n))

\* the worker t is at a file that is neither binary nor excluded
AtCountedFile(t) ==
    /\ threads[t].pc = "run"
    /\ threads[t].pos <= Len(WalkSteps(threads[t].dir))
    /\ LET step == WalkSteps(threads[t].dir)[threads[t].pos]
       IN  /\ step.kind = "file"
           /\ ~is_binary_file(step.path)
           /\ ~Excluded(step.path, Cfg)

\* C21: while the "Enable Filtering" box is clear (at the start, and after
\* the user has cleared it) the extensions are not applied: every regular
\* file of a listed folder that is not excluded has its file item, whatever
\* its name ends with, and a worker that comes to such a file reports it.
C21_DisabledFilterNotApplied ==
    [][/\ ~filter_enabled' => EveryFileListed'
       /\ \A t \in Threads :
              (~filter_enabled /\ AtCountedFile(t) /\ WorkerVisit(t))
                  => token_queue' # token_queue]_vars

-----------------------------------------------------------------------------
(* Properties of FileHandler.get_files                                      *)

\* the last name of a path given as a string
BaseName(path) == Last(StrSplit(path, Sep))

\* C22: the extensions filter is one test in both enumerations: get_files
\* keeps a file exactly when populate_tree lists it, that is when its
\* lower-cased name ends with the lower-cased form of an extension of the
\* list (or the list is empty).
C22_GetFilesFiltersAsTree ==
    (sp_files.called /\ sp_files.ok) =>
        Range(sp_files.files)
            = {f \in Range(get_files(sp_files.directory, <<>>, DEFAULT_EXCLUDE_PATTERNS, {}).files) :
                   MatchesExtensions(BaseName(f), sp_files.extensions)}

-----------------------------------------------------------------------------
(* Properties of symlinked directories                                      *)

\* the items of tree t that stand for a symlink to a directory
LinkItems(t) == {i \in DOMAIN t.it : "symlink" \in Tags(t, i)}

\* the step leaves every symlink item as it was, without children if it is
\* new (populate_tree was not called on it), and starts no worker over one
LinksLeftAlone ==
    /\ \A l \in LinkItems(tree') :
           get_children(tree', l) = IF l \in Items THEN get_children(tree, l) ELSE <<>>
    /\ \A t \in Threads :
           threads'[t] # threads[t] => threads'[t].dir \notin LinkItems(tree')

\* C23: a click on the tree (on the box of the folder above a symlink to a
\* directory, or on the symlink item itself) and Expand All never list the
\* symlink item and never start a token calculation over it.
C23_LinksNotTraversed ==
    [][((\E item \in ClickTargets : handle_click(item)) \/ expand_all_folders)
           => LinksLeftAlone]_vars

-----------------------------------------------------------------------------
(* Properties of the worker threads                                         *)

\* C24: a worker changes the state of the application only by putting
\* messages on token_queue: no step of a worker writes
\* calculated_directories, pending_calculations, active_threads,
\* cancel_operation or the tree, which the interactive thread reads and
\* writes.
C24_WorkerWritesQueueOnly ==
    [][WorkerStep =>
           UNCHANGED <<calculated_directories, pending_calculations, active_threads,
                       cancel_operation, tree>>]_vars

\* C25: with several workers running after Expand All, a worker that was in
\* its walk, with a file boundary still to reach, when Cancel was pressed
\* does not take the walk to its end and report 'done': it reports
\* 'cancelled' at its next boundary.
C25_CancelStopsEveryWorker ==
    \A w \in completed_walks : ~w.req

-----------------------------------------------------------------------------
(* The memory of calculated directories                                     *)

\* listing, clicks on the items of symlinks (the folder items that have no
\* box), Expand All, the workers and the poll, over the directory with the
\* symlink
MemoEvent ==
    \/ \E d \in Directories : browse_directory(d)
    \/ \E item \in FolderItems : on_folder_open(item)
    \/ \E item \in LinkItems(tree) : handle_click(item)
    \/ expand_all_folders

NextMemo == MemoEvent \/ FilterWorkerStep \/ Poll

SpecMemo == InitCalc /\ [][NextMemo]_vars

\* C26: a request to calculate a directory that is in calculated_directories
\* does nothing: no step (a click on a folder, Expand All) starts a worker
\* for such a directory, and a step that starts workers puts no message.
C26_KnownDirectoryNotRecalculated ==
    [][\A t \in Threads :
           (threads[t].pc # "run" /\ threads'[t].pc = "run")
               => /\ threads'[t].dir \notin calculated_directories
                  /\ token_queue' = token_queue]_vars

\* Expand All has found every folder of the tree calculated: the results of
\* the round are empty, nothing runs and nothing is queued
C26_Witness ==
    /\ FolderItems # {}
    /\ FolderItems \subseteq calculated_directories
    /\ pending_calculations = [has |-> TRUE, n |-> 0]
    /\ calculation_results = <<>>
    /\ pA \in checked_items
    /\ \A t \in Threads : ~is_alive(threads, t)
    /\ token_queue = <<>>

-----------------------------------------------------------------------------
(* A file that cannot be read, in a directory that is calculated            *)

\* Expand All, Cancel, the workers and the poll over the directory whose
\* folder holds a file that does not decode
ErrorEvent ==
    \/ \E d \in Directories : browse_directory(d)
    \/ expand_all_folders
    \/ cancel_current_operation

NextError == ErrorEvent \/ WorkerStep \/ Poll

SpecError == InitFilter /\ [][NextError]_vars

\* the file can be opened and decoded and has no non-text bytes
Countable(path) ==
    /\ path \in DOMAIN FS.files
    /\ FS.files[path].readable
    /\ FS.files[path].utf8
    /\ ~FS.files[path].binary

\* the file is opened by the worker and its read fails
FailsToCount(path) ==
    /\ path \in DOMAIN FS.files
    /\ FS.files[path].readable
    /\ ~FS.files[path].binary
    /\ ~FS.files[path].utf8

\* the files below directory d (no symlinks here)
FilesBelow(d) == {p \in DOMAIN FS.files : Len(p) > Len(d) /\ SubSeq(p, 1, Len(d)) = d}

\* the tokens of the files below d that can be counted
CountableSum(d) ==
    LET files == {p \in FilesBelow(d) : Countable(p)}
    IN  SumOver(files, [p \in files |-> FS.files[p].tokens])

\* the worker t is at a file whose read fails
AtFailingFile(t) ==
    /\ threads[t].pc = "run"
    /\ threads[t].pos <= Len(WalkSteps(threads[t].dir))
    /\ WalkSteps(threads[t].dir)[threads[t].pos].kind = "file"
    /\ FailsToCount(WalkSteps(threads[t].dir)[threads[t].pos].path)

-----------------------------------------------------------------------------
(* Properties of closing a folder                                           *)

\* C28: when a folder is closed that is not checked, afterwards no item
\* below it in the tree is in checked_items; when a folder is closed that is
\* checked, checked_items is as it was.
C28_CloseUnchecksBelow ==
    [][\A item \in FolderItems :
           on_folder_close(item) =>
               IF tree.it[item].text.mark # "checked"
               THEN Descendants(tree', item) \cap checked_items' = {}
               ELSE checked_items' = checked_items]_vars

-----------------------------------------------------------------------------
(* The repository root of a digest                                          *)

\* the directory of FsPlain without a .git folder, with one in r, and with
\* one in r and in r/D
InitRoot ==
    /\ fs \in {3, 5, 6}
    /\ InitApp
    /\ IdleExclude
    /\ IdleSafe
    /\ md_disk = Disk(<<"0x00">>, <<"x">>)
    /\ md_selected = <<>>
    /\ md_patterns = {}
    /\ md_result = NoDigest

SpecRoot == InitRoot /\ [][NextCompose]_vars

RECURSIVE SearchSteps(_)
\* the number of times the body of the loop of lines 218-223 runs to its
\* last line from repo_root = d
SearchSteps(d) ==
    IF d = <<>> \/ exists(Append(d, nGit)) THEN 0 ELSE 1 + SearchSteps(Front(d))

\* a directory and the directories above it, the root of the file system
\* included
Ancestors(d) == {SubSeq(d, 1, n) : n \in 0..Len(d)}

HoldsGit(d) == Append(d, nGit) \in FS.dirs \cup DOMAIN FS.files \cup DOMAIN FS.links

NearestRepository(d) ==
    LET g == {a \in Ancestors(d) : HoldsGit(a)}
    IN  IF g = {} THEN d ELSE CHOOSE a \in g : \A b \in g : Len(b) <= Len(a)

\* C29: the digest of a selection starts with the tree of the nearest
\* directory that holds a .git entry, among the common directory of the
\* selected files and the directories above it, and of the common directory
\* itself when none of them holds one; the search upward takes no more
\* steps than the common directory has components.
C29_RootIsNearestRepository ==
    (md_result.called /\ md_result.file_paths # <<>>) =>
        LET c == CommonPath(Dirnames(md_result.file_paths))
        IN  /\ RepoRoot(c) = NearestRepository(c)
            /\ SearchSteps(c) <= Len(c)
            /\ md_result.content
                   = TreePart(NearestRepository(c), md_patterns)
                         \o Sections(md_result.file_paths, c, md_disk)

\* a digest of files of r/D, the .git folder being in r: the tree is the
\* tree of r
C29_Witness ==
    /\ fs = 5
    /\ md_result.called
    /\ md_result.file_paths # <<>>
    /\ CommonPath(Dirnames(md_result.file_paths)) = pD
    /\ NearestRepository(pD) = pR
    /\ SearchSteps(pD) = 1

-----------------------------------------------------------------------------
(* FileHandler.get_files on a directory that is not there                   *)

\* C30: get_files on a directory that does not exist ends with the error,
\* returns no list of files, and leaves visited_paths as it was before the
\* call.
C30_MissingDirectoryFails ==
    (sp_files.called /\ ~(\E p \in FS.dirs \cup DOMAIN FS.files : p = realpath(sp_files.directory))) =>
        /\ ~sp_files.ok
        /\ sp_files.files = <<>>
        /\ sp_visited = sp_files.before

\* the call on r/x, which is not there, of a handler that has seen paths
C30_Witness ==
    /\ sp_files.called
    /\ sp_files.directory = pMissing
    /\ ~sp_files.ok
    /\ sp_files.before # {}
    /\ sp_visited = sp_files.before

-----------------------------------------------------------------------------
(* The progress messages of a calculation                                   *)

\* the directory with the excluded folder: listing, the exclusions switched
\* off and on, Expand All, the workers and the poll
ProgressEvent ==
    \/ \E d \in Directories : browse_directory(d)
    \/ toggle_exclude
    \/ \E item \in FolderItems : on_folder_open(item)
    \/ expand_all_folders

NextProgress == ProgressEvent \/ FilterWorkerStep \/ Poll

InitProgress ==
    /\ fs = 2
    /\ InitApp
    /\ IdleExclude
    /\ IdleSafe
    /\ IdleCompose

SpecProgress == InitProgress /\ [][NextProgress]_vars

\* C31: when the poll takes a 'progress' message (path, tokens) off the
\* queue and the file of that path has an item in the tree, the Tokens
\* column of the item shows that count afterwards.
C31_ProgressShownOnItem ==
    [][(TickGet /\ Head(token_queue).status = "progress"
               /\ Head(token_queue).path \in DOMAIN tree.it)
         => tree'.it[Head(token_queue).path].values
                = [s |-> "int", n |-> Head(token_queue).n]]_vars

-----------------------------------------------------------------------------
(* A file that cannot be opened, in a folder that is listed                 *)

InitLocked ==
    /\ fs = 7
    /\ InitApp
    /\ IdleExclude
    /\ IdleSafe
    /\ IdleCompose

SpecLocked == InitLocked /\ [][TreeEvent]_vars

\* C32: the item of a regular file that cannot be read carries the error
\* status ('(error)' in the Tokens column, the tag 'error') and not the
\* binary status, and the other entries of its folder are listed with it.
C32_UnreadableListedAsError ==
    \A item \in DOMAIN tree.it :
        ("file" \in tree.it[item].tags
            /\ item \in DOMAIN FS.files /\ ~FS.files[item].readable) =>
            /\ tree.it[item].values.s = "(error)"
            /\ "error" \in tree.it[item].tags
            /\ "binary" \notin tree.it[item].tags
            /\ \A other \in DOMAIN FS.files :
                   Front(other) = Front(item) => other \in DOMAIN tree.it

-----------------------------------------------------------------------------
(* The poll under fair scheduling                                           *)

\* the steps of one worker; without a cancel request one of them can be
\* taken exactly while the thread is in its walk or in its finally clause
WorkerRuns(t) == WorkerVisit(t) \/ WorkerDone(t) \/ WorkerFinally(t)

\* a poll that is due (a timer of root.after is pending, or
\* check_token_queue is in its loop) runs, and a thread that can take a step
\* takes it (weak fairness of WorkerRuns(t), its enabling condition written
\* out); the user is under no obligation
Fairness ==
    /\ WF_vars(Poll)
    /\ \A t \in Threads :
           \/ []<>(threads[t].pc \notin {"run", "finally"})
           \/ []<><<WorkerRuns(t)>>_vars

SpecLive == InitCalc /\ [][NextMemo]_vars /\ Fairness

\* C33: a message on token_queue is eventually taken off: whenever the
\* queue is not empty, it is empty at some later time.
C33_QueueEventuallyDrained ==
    (token_queue # <<>>) ~> (token_queue = <<>>)

-----------------------------------------------------------------------------
(* The count of outstanding calculations of Expand All                      *)

\* two folders, one with a file that does not decode: listing, Expand All,
\* the workers and the poll
PendingEvent ==
    \/ \E d \in Directories : browse_directory(d)
    \/ expand_all_folders

NextPending == PendingEvent \/ FilterWorkerStep \/ Poll

SpecPending == InitLocked /\ [][NextPending]_vars

\* the workers that have not put their last message yet, and the last
\* messages ('done', 'cancelled') that are still on the queue
Outstanding ==
    Cardinality({t \in Threads : threads[t].pc = "run"})
        + Cardinality({k \in 1..Len(token_queue) :
                          token_queue[k].status \in {"done", "cancelled"}})

\* C34: once Expand All has set pending_calculations, it is the number of
\* requested directories whose last message has not been taken off the
\* queue yet.
C34_PendingCountsOutstanding ==
    pending_calculations.has => pending_calculations.n = Outstanding

-----------------------------------------------------------------------------
(* The total of Expand All over nested folders                              *)

\* the files a worker over dir counts, by the place they are stored at
CountedFiles(dir) ==
    {realpath(WalkSteps(dir)[k].path) :
         k \in {j \in 1..Len(WalkSteps(dir)) :
                    /\ WalkSteps(dir)[j].kind = "file"
                    /\ FileOutcome(WalkSteps(dir)[j].path).status = "progress"}}

\* the tokens of the files below the checked folders, each file once
EachFileOnce(t, checked) ==
    LET files == UNION {CountedFiles(i) : i \in {j \in checked \cap DOMAIN t.it :
                                                    "folder" \in t.it[j].tags}}
    IN  SumOver(files, [f \in files |-> FileOutcome(f).n])

\* C35: when the last aggregation of an Expand All is reported (a 'done' is
\* taken off the queue, the count of outstanding ones reaches 0, no worker
\* is left, the queue holds nothing else and the folders reported are still
\* checked folders of the tree), the total shown is the sum of the tokens of
\* the files below the checked folders, each file once.
C35_TotalCountsEachFileOnce ==
    [][(/\ TickGet
        /\ Head(token_queue).status = "done"
        /\ pending_calculations.has
        /\ pending_calculations'.n = 0
        /\ Tail(token_queue) = <<>>
        /\ \A t \in Threads : threads[t].pc # "run"
        /\ \A d \in DOMAIN calculation_results' :
               d \in checked_items /\ d \in FolderItems)
           => total_tokens_label' = EachFileOnce(tree', checked_items')]_vars

-----------------------------------------------------------------------------
(* The workers of one directory                                             *)

\* C36: at any time at most one worker is walking a given directory: two
\* threads that are both in their walk were started for different
\* directories.
C36_OneWorkerPerDirectory ==
    \A t, u \in Threads :
        (t # u /\ threads[t].pc = "run" /\ threads[u].pc = "run")
            => threads[t].dir # threads[u].dir

-----------------------------------------------------------------------------
(* The messages of one worker                                               *)

\* a step of the worker t, the cancelled one included
WorkerActs(t) == WorkerRuns(t) \/ WorkerCancelled(t)

\* every started worker is scheduled again and again until it has ended
SpecWorkers ==
    /\ InitCount
    /\ [][NextCount]_vars
    /\ \A t \in Threads : \/ []<>(threads[t].pc \notin {"run", "finally"})
                          \/ []<><<WorkerActs(t)>>_vars

\* the messages that end the walk of the worker t
TerminalMessages(t) ==
    {Msg("done", threads[t].dir, threads[t].total), Msg("cancelled", <<>>, 0)}

\* the step puts exactly the message m at the end of the queue
Puts(m) == token_queue' = Append(token_queue, m)

\* the step puts something on the queue
PutsSome == Len(token_queue') > Len(token_queue) \/ (~TickGet /\ token_queue' # token_queue)

\* a worker leaves its walk for its finally clause, with one terminal
\* message, and never walks again
LeavesWithOneMessage ==
    \A t \in Threads :
        /\ (threads[t].pc = "run" /\ threads'[t].pc # "run")
               => /\ threads'[t].pc = "finally"
                  /\ \E m \in TerminalMessages(t) : Puts(m)
        /\ threads[t].pc \in {"finally", "dead"}
               => threads'[t].pc \in {"finally", "dead"}

\* a message is put by one worker that is in its walk; one that stays in
\* its walk puts one 'progress' or per-file 'error'
PutByWalkingWorker ==
    PutsSome
        => \E t \in Threads :
               /\ threads[t].pc = "run"
               /\ threads'[t] # threads[t]
               /\ \A u \in Threads \ {t} : threads'[u] = threads[u]
               /\ \/ threads'[t].pc = "finally"
                  \/ /\ threads'[t].pc = "run"
                     /\ \E m \in {Last(token_queue')} :
                            /\ Puts(m)
                            /\ m.status \in {"progress", "error"}
                            /\ m.path # threads[t].dir

\* C37: a worker leaves its walk by putting exactly one terminal message
\* ('done' or 'cancelled') and going to its finally clause; a message is
\* put only by a worker that is in its walk, one message a step, and a
\* worker that stays in its walk puts a 'progress' or a per-file 'error';
\* a worker that left its walk never walks again, and every worker that is
\* scheduled fairly ends.
C37_OneTerminalMessage ==
    /\ [][LeavesWithOneMessage /\ PutByWalkingWorker]_vars
    /\ \A t \in Threads : (threads[t].pc = "run") ~> (threads[t].pc = "dead")

\* a cancelled worker and a finished one have both ended, one message each
\* on the queue
C37_Witness ==
    /\ \A t \in Threads : threads[t].pc = "dead"
    /\ Len(token_queue) = 2
    /\ {token_queue[1].status, token_queue[2].status} = {"done", "cancelled"}

-----------------------------------------------------------------------------
(* The total of a worker and the counts the tree shows                      *)

\* the folder d is in the tree with everything below it listed: no
\* placeholder is left under it
FullyShown(t, d) ==
    /\ d \in DOMAIN t.it
    /\ "folder" \in Tags(t, d)
    /\ get_children(t, d) # <<>>
    /\ \A i \in Descendants(t, d) : "dummy" \notin Tags(t, i)

\* the sum of the numbers in the Tokens column of the file items below d
\* that are not excluded, binary or error
ShownSum(t, d) ==
    LET files == {i \in Descendants(t, d) :
                     /\ "file" \in Tags(t, i)
                     /\ Tags(t, i) \cap {"binary", "error", "excluded"} = {}
                     /\ t.it[i].values.s = "int"}
    IN  SumOver(files, [i \in files |-> t.it[i].values.n])

\* C38: the total of a 'done' message for a folder that the tree shows in
\* full equals the sum of the numbers shown on the file items below that
\* folder that are not excluded, binary or error.
C38_DoneTotalIsShownSum ==
    \A k \in 1..Len(token_queue) :
        (token_queue[k].status = "done" /\ FullyShown(tree, token_queue[k].path))
            => token_queue[k].n = ShownSum(tree, token_queue[k].path)

-----------------------------------------------------------------------------
(* The files of a digest and the checked items                              *)

\* C39: the files copy_markdown_to_clipboard hands to the generator that are
\* items of the tree, and not excluded ones, are checked items: a file that
\* was unchecked by itself under a folder that stays checked is not among
\* them.
C39_ComposedFilesAreChecked ==
    [][(copy_markdown_to_clipboard /\ clipboard' # clipboard)
           => \A f \in clipboard'.files :
                  (f \in Items /\ "excluded" \notin Tags(tree, f)) => f \in checked_items]_vars

=============================================================================
